---- MODULE Spec2Model ----
(***************************************************************************)
(* Model of the Delta training code:                                       *)
(*   src/training/train_multi.py  Trainer (setup, train, evaluate,         *)
(*                                checkpoint save/load) run by `world`     *)
(*                                processes, specification Spec;           *)
(*   src/training/train.py        DeltaGPT.generate, specification SpecGen;*)
(*                                train(), specification SpecTrain, and    *)
(*                                with the Trainer, SpecLoops.             *)
(*                                                                         *)
(* Collective operations of torch.distributed are rendezvous: a collective *)
(* completes only when every process of the group waits in a collective of *)
(* the same kind; otherwise the waiting processes stay blocked.            *)
(***************************************************************************)
EXTENDS Integers, Sequences, FiniteSets, TLC

\* ---- bounds of the model ------------------------------------------------
MaxWorld == 2
MaxAccum == 2
MaxIters == 2
MaxEvalInterval == 2
MaxGrad == 1
MaxLoss == 2
MaxValBatches == 2
MaxTrainBatches == 2
\* GradScaler's growth_interval (2000 by default), scaled down to the runs
\* explored here
GrowthInterval == 2

\* ---- program constants --------------------------------------------------
\* TrainingConfig.log_interval
LogInterval == 10
\* TrainingConfig.batch_size
BatchSize == 64
\* TrainingConfig.grad_clip
GradClip == 1
\* the periodic checkpoint is written every eval_interval * 10 iterations
PeriodicFactor == 10
\* float("inf"), as a value above every loss of the model
Inf == 1000000
\* losses are fixed-point numbers: one unit is divisible by every
\* world_size * batch_count * batch_count the model reaches
LossUnit == 6 * 6 * 6 * 4

VARIABLES
    \* launch environment and configuration (fixed after Init)
    env_rank,        \* "RANK" in os.environ
    world,           \* number of launched processes
    cfg,             \* the TrainingConfig the caller passes, and len(val_loader)
    resume_file,     \* content of train_config.resume_checkpoint on disk
    \* per-process Trainer state
    pc,              \* position of each process in __init__ / train
    dctx,            \* rank, local_rank, world_size, is_main_process, distributed
    accum,           \* train_config.gradient_accumulation_steps of the process
    writer,          \* self.writer is a SummaryWriter (TRUE) or None (FALSE)
    params,          \* model weights
    grads,           \* accumulated .grad of the weights
    iter_num,        \* self.iter_num
    loop_iter,       \* next value of the loop variable of train()
    best_val_loss,   \* self.best_val_loss
    val_buf,         \* val_losses / val_loss_tensor inside evaluate
    ret,             \* where the process continues after the barrier it waits in
    save_kind,       \* which save_checkpoint call is running
    \* observation of effects
    opt_steps,       \* optimizer.step() calls
    iters_run,       \* loop bodies entered
    coll_log,        \* collective operations the process has called, in order
    ckpt_writes,     \* the save_checkpoint calls that wrote files, in order
    metric_writes,   \* writer.add_scalar calls of the process
    disk,            \* checkpoint_latest.pt / checkpoint_best.pt / last step file
    scaler,          \* self.scaler: the GradScaler's scale and growth tracker
    \* the training loop of each process
    train_iter,      \* batches train_iter has yielded since iter(train_loader)
    contribs,        \* backward passes accumulated in .grad since zero_grad
    sched_steps,     \* lr_scheduler.step() calls
    step_ops,        \* clip / step / zero / sched calls of the last iteration
    training,        \* self.model.training
    val_seen,        \* lowest value evaluate has returned to the main process
    \* DeltaGPT.generate
    gen,
    \* one call of a function of train.py: its arguments and what it produced
    call

loop_vars == <<train_iter, contribs, sched_steps, step_ops, training, val_seen>>
trainer_vars == <<env_rank, world, cfg, resume_file, pc, dctx, accum, writer,
                  params, grads, iter_num, loop_iter, best_val_loss,
                  val_buf, ret, save_kind, opt_steps, iters_run, coll_log,
                  ckpt_writes, metric_writes, disk, scaler, loop_vars>>
vars == <<trainer_vars, gen, call>>

Ranks == 0 .. (world - 1)

\* ---- values -------------------------------------------------------------
\* torch.manual_seed(42 + self.rank)
Seed == 42
GradVals == 0 .. MaxGrad
\* a gradient that holds inf or NaN
NonFinite == Inf
\* the gradients one backward pass can produce: overflow to inf / NaN happens
\* under float16 autocast
GradInputs == GradVals \cup (IF cfg.mixed_precision THEN {NonFinite} ELSE {})
\* torch.cuda.amp.GradScaler() defaults: init_scale, growth_factor and
\* 1 / backoff_factor
InitScale == 65536
GrowthFactor == 2
BackoffDivisor == 2
\* self.scaler is None
NoScaler == [scale |-> 0, growth_tracker |-> 0]
LossVals == {k * LossUnit : k \in 1 .. MaxLoss}
\* weights held by a checkpoint file: a value no fresh initialisation has
SavedWeights == Seed - 1
NoFile == [exists |-> FALSE, model_ok |-> FALSE, has_optimizer |-> FALSE,
           model |-> 0, iter_num |-> 0, best_val_loss |-> Inf]
\* checkpoint files as save_checkpoint writes them (model_ok and has_optimizer),
\* files without the "optimizer" key that load_checkpoint also accepts, and
\* files whose "model" entry is missing or does not match the model's keys
\* (model_ok = FALSE); the step counter is the one a run of MaxIters
\* iterations last stored
CheckpointFiles ==
    {f \in [exists : {TRUE}, model_ok : BOOLEAN, has_optimizer : BOOLEAN,
            model : {SavedWeights}, iter_num : {MaxIters - 1},
            best_val_loss : {LossUnit}] : f.model_ok \/ f.has_optimizer}
NoDisk == [latest |-> NoFile, best |-> NoFile, step |-> NoFile]

Configs ==
    {c \in [gradient_accumulation_steps : 1 .. MaxAccum,
            max_iters : {0, 1, MaxIters},
            eval_interval : {1, MaxEvalInterval},
            eval_iters : {MaxValBatches},
            val_batches : {0, 1, MaxValBatches + 1},
            has_decay_lr : BOOLEAN,
            init_from : {"scratch", "resume"},
            mixed_precision : BOOLEAN,
            data_missing : {{}, {0}, {MaxWorld - 1}},
            grad_clip : {0, GradClip},
            train_batches : {0, 1, MaxTrainBatches}] :
        \* a resumed run, a mixed-precision run, a run without clipping and a
        \* run on another number of training batches are explored with one
        \* setting of the options they do not interact with
        /\ (c.init_from = "resume" \/ c.mixed_precision
              \/ c.grad_clip = 0 \/ c.train_batches # 1) =>
               /\ c.eval_interval = 1
               /\ c.val_batches = 1
        /\ c.init_from = "resume" => ~c.mixed_precision
        /\ (c.grad_clip = 0 \/ c.train_batches # 1) =>
               /\ c.init_from = "scratch"
               /\ ~c.mixed_precision
               /\ c.has_decay_lr
        /\ c.train_batches # 1 => c.grad_clip = GradClip
        \* a run whose dataset setup fails never reaches the training loop
        /\ c.data_missing # {} =>
               /\ c.gradient_accumulation_steps = 1
               /\ c.max_iters = 0
               /\ c.val_batches = 0
               /\ c.has_decay_lr
               /\ ~c.mixed_precision
               /\ c.grad_clip = GradClip
               /\ c.train_batches = 1}

\* the configuration of a process that builds no Trainer
IdleConfig ==
    [gradient_accumulation_steps |-> 1, max_iters |-> 0, eval_interval |-> 1,
     eval_iters |-> MaxValBatches, val_batches |-> 0, has_decay_lr |-> FALSE,
     init_from |-> "scratch", mixed_precision |-> FALSE, data_missing |-> {},
     grad_clip |-> GradClip, train_batches |-> 1]

\* ---- Trainer.setup_distributed -----------------------------------------
NoCtx == [rank |-> -1, local_rank |-> -1, world_size |-> 0,
          is_main_process |-> FALSE, distributed |-> FALSE]

AlwaysDistributed(in_env) == TRUE
\* self.distributed, from the presence of RANK in the environment
DistributedFlag(in_env) == in_env

EveryRankMain(r) == TRUE
\* self.is_main_process = self.rank == 0
IsMainProcess(r) == r = 0

NoFloor(n) == n
\* lines 89-90: a factor below 1 becomes 1
FloorAtOne(n) == IF n < 1 THEN 1 ELSE n

NoRescale(g, w) == g
\* line 88: gradient_accumulation_steps //= world_size, then the floor
RescaleAccum(g, w) == FloorAtOne(g \div w)

\* lines 62-75: the single-process branch, or the call of init_process_group
SetupDistributed(r) ==
    /\ pc[r] = "new"
    /\ IF ~env_rank
       THEN /\ dctx' = [dctx EXCEPT ![r] =
                   [rank |-> 0, local_rank |-> 0, world_size |-> 1,
                    is_main_process |-> TRUE,
                    distributed |-> DistributedFlag(FALSE)]]
            /\ pc' = [pc EXCEPT ![r] = "setup_logging"]
            /\ UNCHANGED coll_log
       ELSE /\ dctx' = [dctx EXCEPT ![r].distributed = DistributedFlag(TRUE)]
            /\ coll_log' = [coll_log EXCEPT ![r] = Append(@, "init_process_group")]
            /\ pc' = [pc EXCEPT ![r] = "at_init_pg"]
    /\ UNCHANGED <<env_rank, world, cfg, resume_file, accum, writer, params, grads,
                   iter_num, loop_iter, best_val_loss, val_buf, ret,
                   save_kind, opt_steps, iters_run, ckpt_writes, metric_writes,
                   disk, gen, call,
                   scaler, loop_vars>>

\* dist.init_process_group returns once every launched process has joined
InitProcessGroup ==
    /\ \A r \in Ranks : pc[r] = "at_init_pg"
    /\ pc' = [r \in Ranks |-> "init_pg_done"]
    /\ UNCHANGED <<env_rank, world, cfg, resume_file, dctx, accum, writer, params,
                   grads, iter_num, loop_iter, best_val_loss, val_buf,
                   ret, save_kind, opt_steps, iters_run, coll_log, ckpt_writes,
                   metric_writes, disk, gen, call,
                   scaler, loop_vars>>

\* lines 77-98: rank, world size, main-process flag, accumulation rescale
SetupDistributedRest(r) ==
    /\ pc[r] = "init_pg_done"
    /\ dctx' = [dctx EXCEPT ![r] =
            [rank |-> r, local_rank |-> r, world_size |-> world,
             is_main_process |-> IsMainProcess(r),
             distributed |-> dctx[r].distributed]]
    /\ accum' = [accum EXCEPT ![r] = RescaleAccum(accum[r], world)]
    /\ pc' = [pc EXCEPT ![r] = "setup_logging"]
    /\ UNCHANGED <<env_rank, world, cfg, resume_file, writer, params, grads,
                   iter_num, loop_iter, best_val_loss, val_buf, ret,
                   save_kind, opt_steps, iters_run, coll_log, ckpt_writes,
                   metric_writes, disk, gen, call,
                   scaler, loop_vars>>

\* ---- Trainer.setup_logging / setup_datasets ------------------------------
SetupLogging(r) ==
    /\ pc[r] = "setup_logging"
    /\ writer' = [writer EXCEPT ![r] = dctx[r].is_main_process]
    /\ pc' = [pc EXCEPT ![r] = "setup_datasets"]
    /\ UNCHANGED <<env_rank, world, cfg, resume_file, dctx, accum, params, grads,
                   iter_num, loop_iter, best_val_loss, val_buf, ret,
                   save_kind, opt_steps, iters_run, coll_log, ckpt_writes,
                   metric_writes, disk, gen, call,
                   scaler, loop_vars>>

\* lines 110-181: datasets and loaders are built; when CommandDataset finds no
\* training data for this process (cfg.data_missing) the handler destroys the
\* process group in distributed mode and calls exit(1)
SetupDatasets(r) ==
    /\ pc[r] = "setup_datasets"
    /\ IF r \in cfg.data_missing
       THEN /\ pc' = [pc EXCEPT ![r] = "exited"]
            /\ coll_log' = [coll_log EXCEPT ![r] =
                  IF dctx[r].distributed
                  THEN Append(@, "destroy_process_group") ELSE @]
       ELSE /\ pc' = [pc EXCEPT ![r] = "setup_model"]
            /\ UNCHANGED coll_log
    /\ UNCHANGED <<env_rank, world, cfg, resume_file, dctx, accum, writer, params,
                   grads, iter_num, loop_iter, best_val_loss, val_buf,
                   ret, save_kind, opt_steps, iters_run, ckpt_writes,
                   metric_writes, disk, gen, call,
                   scaler, loop_vars>>

\* ---- Trainer.load_checkpoint --------------------------------------------
\* DeltaGPT(self.model_config): a fresh initialisation under the process's seed
InitWeights(r) == Seed + r

ResumedAtOne(w) == [model |-> w, iter_num |-> 1, best_val_loss |-> Inf]
\* lines 313-316 and 218-220: step counter 0, best validation loss infinity
FreshRun(w) == [model |-> w, iter_num |-> 0, best_val_loss |-> Inf]

\* some statement of load_checkpoint's try block raises
LoadRaises(file, distributed) ==
    \/ ~file.exists
    \/ distributed
    \/ ~file.model_ok
    \/ file.has_optimizer

\* The state load_checkpoint leaves, called from setup_model_and_optimizer
\* before self.optimizer exists and before the model is wrapped in DDP:
\*   torch.load raises on a missing file;
\*   self.model.module raises in distributed mode (the model is not wrapped yet);
\*   checkpoint["model"] / load_state_dict raise on a missing or mismatching
\*   "model" entry;
\*   self.optimizer.load_state_dict raises when the file has an "optimizer" key
\*   and the run is not distributed (no self.optimizer yet), after the weights
\*   were loaded;
\* every exception is caught and resets iter_num and best_val_loss.
LoadCheckpoint(fresh, file, distributed) ==
    IF ~file.exists THEN FreshRun(fresh)
    ELSE IF distributed THEN FreshRun(fresh)
    ELSE IF ~file.model_ok THEN FreshRun(fresh)
    ELSE IF file.has_optimizer THEN FreshRun(file.model)
    ELSE [model |-> file.model, iter_num |-> file.iter_num,
          best_val_loss |-> file.best_val_loss]

\* ---- Trainer.setup_model_and_optimizer ----------------------------------
SetupModel(r) ==
    /\ pc[r] = "setup_model"
    /\ LET loaded == IF cfg.init_from = "resume"
                     THEN LoadCheckpoint(InitWeights(r), resume_file,
                                         dctx[r].distributed)
                     ELSE FreshRun(InitWeights(r))
       IN /\ params' = [params EXCEPT ![r] = loaded.model]
          /\ iter_num' = [iter_num EXCEPT ![r] = loaded.iter_num]
          /\ best_val_loss' = [best_val_loss EXCEPT ![r] = loaded.best_val_loss]
    /\ scaler' = [scaler EXCEPT ![r] =
          IF cfg.mixed_precision
          THEN [scale |-> InitScale, growth_tracker |-> 0] ELSE NoScaler]
    /\ IF dctx[r].distributed
       THEN /\ coll_log' = [coll_log EXCEPT ![r] = Append(@, "ddp")]
            /\ pc' = [pc EXCEPT ![r] = "at_ddp"]
       ELSE /\ pc' = [pc EXCEPT ![r] = "constructed"]
            /\ UNCHANGED coll_log
    /\ UNCHANGED <<env_rank, world, cfg, resume_file, dctx, accum, writer, grads,
                   loop_iter, val_buf, ret, save_kind, opt_steps,
                   iters_run, ckpt_writes, metric_writes, disk, gen, call,
                   loop_vars>>

\* DDP(...): the constructor broadcasts rank 0's weights to every replica;
\* each process then calls dist.barrier() (line 251)
DDPWrap ==
    /\ \A r \in Ranks : pc[r] = "at_ddp"
    /\ params' = [r \in Ranks |-> params[0]]
    /\ coll_log' = [r \in Ranks |-> Append(coll_log[r], "barrier")]
    /\ ret' = [r \in Ranks |-> "constructed"]
    /\ pc' = [r \in Ranks |-> "at_barrier"]
    /\ UNCHANGED <<env_rank, world, cfg, resume_file, dctx, accum, writer, grads,
                   iter_num, loop_iter, best_val_loss, val_buf,
                   save_kind, opt_steps, iters_run, ckpt_writes, metric_writes,
                   disk, gen, call,
                   scaler, loop_vars>>

\* dist.barrier(): returns in every process once all of them wait in a barrier
Barrier ==
    /\ \A r \in Ranks : pc[r] = "at_barrier"
    /\ pc' = [r \in Ranks |-> ret[r]]
    /\ UNCHANGED <<env_rank, world, cfg, resume_file, dctx, accum, writer, params,
                   grads, iter_num, loop_iter, best_val_loss, val_buf,
                   ret, save_kind, opt_steps, iters_run, coll_log, ckpt_writes,
                   metric_writes, disk, gen, call,
                   scaler, loop_vars>>

\* ---- Trainer.train: one iteration ----------------------------------------
RECURSIVE SumSeq(_)
SumSeq(q) == IF q = <<>> THEN 0 ELSE Head(q) + SumSeq(Tail(q))

RECURSIVE SumRanks(_, _)
SumRanks(f, n) == IF n = 0 THEN 0 ELSE f[n - 1] + SumRanks(f, n - 1)

\* .grad accumulates: inf / NaN absorbs every later addition
AddGrad(a, b) == IF a = NonFinite \/ b = NonFinite THEN NonFinite ELSE a + b

LocalGradOnly(lg, r) == lg[r]
\* DDP's gradient hook: the all-reduce leaves the mean of the replicas'
\* gradients in every replica
ReducedGrad(lg, r) == SumRanks(lg, world) \div world

\* the all-reduced gradient: inf / NaN in one replica reaches every replica
MeanGrad(lg, r) ==
    IF \E q \in Ranks : lg[q] = NonFinite THEN NonFinite ELSE ReducedGrad(lg, r)

NeverFoundInf(g) == FALSE
\* scaler.step / scaler.unscale_: the unscaled gradients hold inf or NaN
FoundInf(g) == g = NonFinite

\* scaler.update(): backoff after an overflow, growth after GrowthInterval
\* consecutive steps without one
ScalerUpdate(sc, found_inf) ==
    IF found_inf
    THEN [scale |-> sc.scale \div BackoffDivisor, growth_tracker |-> 0]
    ELSE IF sc.growth_tracker + 1 = GrowthInterval
    THEN [scale |-> sc.scale * GrowthFactor, growth_tracker |-> 0]
    ELSE [sc EXCEPT !.growth_tracker = @ + 1]

\* line 389-397: model.train(), iter(self.train_loader), and the loop starts
\* at self.iter_num
TrainStart(r) ==
    /\ pc[r] = "constructed"
    /\ loop_iter' = [loop_iter EXCEPT ![r] = iter_num[r]]
    /\ training' = [training EXCEPT ![r] = TRUE]
    /\ train_iter' = [train_iter EXCEPT ![r] = 0]
    /\ pc' = [pc EXCEPT ![r] = "loop_head"]
    /\ UNCHANGED <<env_rank, world, cfg, resume_file, dctx, accum, writer, params,
                   grads, iter_num, best_val_loss, val_buf, ret,
                   save_kind, opt_steps, iters_run, coll_log, ckpt_writes,
                   metric_writes, disk, gen, call,
                   scaler, contribs, sched_steps, step_ops, val_seen>>

AlwaysYields(pos, n) == TRUE
\* next(train_iter) raises StopIteration: the iterator has yielded every batch
\* of the loader
Exhausted(pos, n) == pos >= n

\* lines 403-412 (train.py lines 584-589): the position of train_iter after the batch of this iteration
\* was fetched, 0 when the restarted iterator raises StopIteration as well
NextBatch(pos, n) ==
    IF ~Exhausted(pos, n) THEN pos + 1
    ELSE IF ~Exhausted(0, n) THEN 1
    ELSE 0

\* lines 399-431 / 446-448: next value of the loop variable, batch (the
\* StopIteration of a loader without batches leaves train()), the read of
\* train_config.decay_lr (AttributeError when the config has no such field),
\* forward and backward; after the loop, lines 502-508
LoopHead(r) ==
    /\ pc[r] = "loop_head"
    /\ IF loop_iter[r] < cfg.max_iters
       THEN /\ iter_num' = [iter_num EXCEPT ![r] = loop_iter[r]]
            /\ loop_iter' = [loop_iter EXCEPT ![r] = @ + 1]
            /\ iters_run' = [iters_run EXCEPT ![r] = @ + 1]
            /\ train_iter' = [train_iter EXCEPT ![r] =
                                 NextBatch(@, cfg.train_batches)]
            /\ UNCHANGED save_kind
            /\ IF NextBatch(train_iter[r], cfg.train_batches) = 0
               THEN /\ pc' = [pc EXCEPT ![r] = "data_exhausted"]
                    /\ UNCHANGED <<grads, coll_log, contribs>>
               ELSE IF ~cfg.has_decay_lr
               THEN /\ pc' = [pc EXCEPT ![r] = "crashed"]
                    /\ UNCHANGED <<grads, coll_log, contribs>>
               ELSE IF dctx[r].distributed
                    THEN /\ coll_log' = [coll_log EXCEPT ![r] = Append(@, "all_reduce")]
                         /\ pc' = [pc EXCEPT ![r] = "at_allreduce"]
                         /\ UNCHANGED <<grads, contribs>>
                    ELSE /\ \E g \in GradInputs :
                               grads' = [grads EXCEPT ![r] = AddGrad(@, g)]
                         /\ contribs' = [contribs EXCEPT ![r] = @ + 1]
                         /\ pc' = [pc EXCEPT ![r] = "after_backward"]
                         /\ UNCHANGED coll_log
       ELSE /\ IF dctx[r].is_main_process
               THEN /\ pc' = [pc EXCEPT ![r] = "saving"]
                    /\ save_kind' = [save_kind EXCEPT ![r] = "final"]
               ELSE /\ pc' = [pc EXCEPT ![r] = "teardown"]
                    /\ UNCHANGED save_kind
            /\ UNCHANGED <<iter_num, loop_iter, iters_run, grads, coll_log,
                           train_iter, contribs>>
    /\ UNCHANGED <<env_rank, world, cfg, resume_file, dctx, accum, writer, params,
                   best_val_loss, val_buf, ret, opt_steps, ckpt_writes,
                   metric_writes, disk, gen, call,
                   scaler, sched_steps, step_ops, training, val_seen>>

\* the all-reduce inside backward(): completes when every replica is in it.
\* lg[r] is the gradient replica r computed locally for its batch (replicas
\* differ in dropout and data), drawn when the all-reduce reads it.
AllReduce ==
    /\ \A r \in Ranks : pc[r] = "at_allreduce"
    /\ \E lg \in [Ranks -> GradInputs] :
          grads' = [r \in Ranks |-> AddGrad(grads[r], MeanGrad(lg, r))]
    /\ contribs' = [r \in Ranks |-> contribs[r] + 1]
    /\ pc' = [r \in Ranks |-> "after_backward"]
    /\ UNCHANGED <<env_rank, world, cfg, resume_file, dctx, accum, writer, params,
                   iter_num, loop_iter, best_val_loss, val_buf, ret, save_kind,
                   opt_steps, iters_run, coll_log, ckpt_writes, metric_writes,
                   disk, gen, call,
                   scaler, train_iter, sched_steps, step_ops, training, val_seen>>

\* clip_grad_norm_(parameters, max_norm): the gradient scaled down to norm
\* max_norm when its norm is larger; grad_clip = 0.0 turns clipping off
Clip(g, max_norm) == IF max_norm # 0 /\ g > max_norm THEN max_norm ELSE g

EveryIteration(i, n) == TRUE
\* lines 434, 451 and 461 (train.py line 604):
\* (iter_num + 1) % gradient_accumulation_steps == 0
Boundary(i, n) == (i + 1) % n = 0

\* lines 433-462 (train.py lines 604-614): the calls of an accumulation boundary, in the order of the
\* code: clip_grad_norm_ when grad_clip != 0.0, optimizer.step() (which
\* scaler.step does not call when it found inf / NaN), zero_grad,
\* lr_scheduler.step()
BoundaryOps(clip, skipped) ==
    (IF clip THEN <<"clip">> ELSE <<>>)
        \o (IF skipped THEN <<>> ELSE <<"step">>) \o <<"zero", "sched">>

\* lines 433-474: optimizer step at the accumulation boundary (through the
\* GradScaler in mixed precision, which skips the step when the gradients
\* hold inf / NaN), zero_grad, scheduler step, logging
SchedUnlessSkipped(n, skipped) == IF skipped THEN n ELSE n + 1
\* lines 460-462: lr_scheduler.step() at every boundary, after either branch
\* of the step, whether or not the scaler skipped the optimizer step
SchedAfter(n, skipped) == n + 1

StepAndLog(r) ==
    /\ pc[r] = "after_backward"
    /\ IF Boundary(iter_num[r], accum[r])
       THEN LET skipped == cfg.mixed_precision /\ FoundInf(grads[r])
            IN /\ IF skipped
                  THEN UNCHANGED <<params, opt_steps>>
                  ELSE /\ params' = [params EXCEPT ![r] =
                                        @ - Clip(grads[r], cfg.grad_clip)]
                       /\ opt_steps' = [opt_steps EXCEPT ![r] = @ + 1]
               /\ IF cfg.mixed_precision
                  THEN scaler' = [scaler EXCEPT ![r] =
                                     ScalerUpdate(@, FoundInf(grads[r]))]
                  ELSE UNCHANGED scaler
               /\ grads' = [grads EXCEPT ![r] = 0]
               /\ contribs' = [contribs EXCEPT ![r] = 0]
               /\ sched_steps' = [sched_steps EXCEPT ![r] = SchedAfter(@, skipped)]
               /\ step_ops' = [step_ops EXCEPT ![r] =
                                 BoundaryOps(cfg.grad_clip # 0, skipped)]
       ELSE /\ step_ops' = [step_ops EXCEPT ![r] = <<>>]
            /\ UNCHANGED <<params, grads, opt_steps, scaler, contribs,
                           sched_steps>>
    /\ IF iter_num[r] % LogInterval = 0 /\ dctx[r].is_main_process
       THEN metric_writes' = [metric_writes EXCEPT ![r] = @ + 2]
       ELSE UNCHANGED metric_writes
    /\ pc' = [pc EXCEPT ![r] =
                 IF iter_num[r] % cfg.eval_interval = 0 THEN "evaluate" ELSE "periodic"]
    /\ UNCHANGED <<env_rank, world, cfg, resume_file, dctx, accum, writer,
                   iter_num, loop_iter, best_val_loss, val_buf, ret,
                   save_kind, iters_run, coll_log, ckpt_writes, disk, gen, call,
                   train_iter, training, val_seen>>

\* ---- Trainer.evaluate -----------------------------------------------------
MinOf(a, b) == IF a < b THEN a ELSE b

AllBatches(n_batches, eval_iters) == n_batches
\* lines 356-358: the batches of the validation loader evaluate reads before
\* the break at eval_iters
EvalBatches(n_batches, eval_iters) == MinOf(n_batches, eval_iters)

\* the local loss lists evaluate can collect: one loss per validation batch read
LocalValLosses == [1 .. EvalBatches(cfg.val_batches, cfg.eval_iters) -> LossVals]

\* lines 352-375: model.eval() and the validation pass over at most eval_iters
\* batches.  In distributed mode the local losses are only read by the reduce,
\* and are drawn there.
EvaluateLocal(r) ==
    /\ pc[r] = "evaluate"
    /\ training' = [training EXCEPT ![r] = FALSE]
    /\ IF dctx[r].distributed
       THEN /\ coll_log' = [coll_log EXCEPT ![r] = Append(@, "reduce")]
            /\ pc' = [pc EXCEPT ![r] = "at_reduce"]
            /\ UNCHANGED val_buf
       ELSE /\ \E vl \in LocalValLosses : val_buf' = [val_buf EXCEPT ![r] = vl]
            /\ pc' = [pc EXCEPT ![r] = "eval_finish"]
            /\ UNCHANGED coll_log
    /\ UNCHANGED <<env_rank, world, cfg, resume_file, dctx, accum, writer, params,
                   grads, iter_num, loop_iter, best_val_loss, ret,
                   save_kind, opt_steps, iters_run, ckpt_writes, metric_writes,
                   disk, gen, call,
                   scaler, train_iter, contribs, sched_steps, step_ops, val_seen>>

\* the values an entry of the reduced tensor can take: the sum of one loss of
\* each of the world replicas
SummedLosses == {k * LossUnit : k \in world .. (world * MaxLoss)}

\* dist.reduce(val_loss_tensor, dst=0, op=SUM): rank 0 receives the elementwise
\* sum of the replicas' local loss tensors; the tensors of the other ranks are
\* not read again.  The replicas' local losses are only read here, so the sums
\* are drawn directly.
ReduceValLoss ==
    /\ \A r \in Ranks : pc[r] = "at_reduce"
    /\ \E sums \in [1 .. EvalBatches(cfg.val_batches, cfg.eval_iters)
                        -> SummedLosses] :
          val_buf' = [val_buf EXCEPT ![0] = sums]
    /\ pc' = [r \in Ranks |-> "eval_finish"]
    /\ UNCHANGED <<env_rank, world, cfg, resume_file, dctx, accum, writer, params,
                   grads, iter_num, loop_iter, best_val_loss, ret,
                   save_kind, opt_steps, iters_run, coll_log, ckpt_writes,
                   metric_writes, disk, gen, call,
                   scaler, loop_vars>>

\* lines 377-382: the value evaluate returns
AvgValLoss(r) ==
    LET n == Len(val_buf[r])
        vals == IF dctx[r].distributed /\ dctx[r].is_main_process
                THEN [i \in 1 .. n |-> val_buf[r][i] \div (dctx[r].world_size * n)]
                ELSE val_buf[r]
    IN IF n = 0 THEN Inf ELSE SumSeq(vals) \div n

\* where a process goes after the validation block (lines 490-492)
AfterValidation(r) == IF dctx[r].distributed THEN "at_barrier" ELSE "periodic"
\* where a process goes after the periodic save (lines 498-500)
AfterPeriodic(r) == IF dctx[r].distributed THEN "at_barrier" ELSE "loop_head"

ImprovesWhenHigher(avg, best) == avg > best
\* line 486 (train.py line 652): avg_val_loss < self.best_val_loss
Improves(avg, best) == avg < best

\* lines 377-492: the end of evaluate (model.train()) and the validation block
\* of train
EvaluateFinish(r) ==
    /\ pc[r] = "eval_finish"
    /\ training' = [training EXCEPT ![r] = TRUE]
    /\ val_seen' = [val_seen EXCEPT ![r] =
          IF dctx[r].is_main_process THEN MinOf(@, AvgValLoss(r)) ELSE @]
    /\ IF dctx[r].is_main_process
       THEN /\ metric_writes' = [metric_writes EXCEPT ![r] = @ + 1]
            /\ IF Improves(AvgValLoss(r), best_val_loss[r])
               THEN /\ best_val_loss' = [best_val_loss EXCEPT ![r] = AvgValLoss(r)]
                    /\ save_kind' = [save_kind EXCEPT ![r] = "best"]
                    /\ pc' = [pc EXCEPT ![r] = "saving"]
                    /\ UNCHANGED <<ret, coll_log>>
               ELSE /\ pc' = [pc EXCEPT ![r] = AfterValidation(r)]
                    /\ ret' = [ret EXCEPT ![r] = "periodic"]
                    /\ coll_log' = [coll_log EXCEPT ![r] =
                          IF dctx[r].distributed THEN Append(@, "barrier") ELSE @]
                    /\ UNCHANGED <<best_val_loss, save_kind>>
       ELSE /\ pc' = [pc EXCEPT ![r] = AfterValidation(r)]
            /\ ret' = [ret EXCEPT ![r] = "periodic"]
            /\ coll_log' = [coll_log EXCEPT ![r] =
                  IF dctx[r].distributed THEN Append(@, "barrier") ELSE @]
            /\ UNCHANGED <<best_val_loss, save_kind, metric_writes>>
    /\ val_buf' = [val_buf EXCEPT ![r] = <<>>]
    /\ UNCHANGED <<env_rank, world, cfg, resume_file, dctx, accum, writer, params,
                   grads, iter_num, loop_iter, opt_steps, iters_run,
                   ckpt_writes, disk, gen, call,
                   scaler, train_iter, contribs, sched_steps, step_ops>>

\* ---- Trainer.save_checkpoint ----------------------------------------------
\* the bundle save_checkpoint builds (lines 327-333)
Checkpoint(r) ==
    [exists |-> TRUE, model_ok |-> TRUE, has_optimizer |-> TRUE,
     model |-> params[r],
     iter_num |-> iter_num[r], best_val_loss |-> best_val_loss[r]]

BestOnEverySave(is_best, bundle, old) == bundle
\* lines 344-348: checkpoint_best.pt after a save_checkpoint(is_best) call
BestFile(is_best, bundle, old) == IF is_best THEN bundle ELSE old

\* lines 335-348: the files are written; then the caller's continuation
\* (barrier in distributed mode after a best or a periodic save, teardown
\* after the final one)
SaveCheckpoint(r) ==
    /\ pc[r] = "saving"
    /\ dctx[r].is_main_process
    /\ disk' = [latest |-> Checkpoint(r), step |-> Checkpoint(r),
                best |-> BestFile(save_kind[r] = "best", Checkpoint(r), disk.best)]
    /\ ckpt_writes' = [ckpt_writes EXCEPT ![r] = Append(@, save_kind[r])]
    /\ save_kind' = [save_kind EXCEPT ![r] = "none"]
    /\ IF save_kind[r] = "final"
       THEN /\ pc' = [pc EXCEPT ![r] = "teardown"]
            /\ UNCHANGED <<ret, coll_log>>
       ELSE /\ pc' = [pc EXCEPT ![r] =
                  IF save_kind[r] = "best" THEN AfterValidation(r) ELSE AfterPeriodic(r)]
            /\ ret' = [ret EXCEPT ![r] =
                  IF save_kind[r] = "best" THEN "periodic" ELSE "loop_head"]
            /\ coll_log' = [coll_log EXCEPT ![r] =
                  IF dctx[r].distributed THEN Append(@, "barrier") ELSE @]
    /\ UNCHANGED <<env_rank, world, cfg, resume_file, dctx, accum, writer, params,
                   grads, iter_num, loop_iter, best_val_loss, val_buf,
                   opt_steps, iters_run, metric_writes, gen, call,
                   scaler, loop_vars>>

\* lines 494-500: the periodic checkpoint, taken by the main process only
Periodic(r) ==
    /\ pc[r] = "periodic"
    /\ IF iter_num[r] % (cfg.eval_interval * PeriodicFactor) = 0
          /\ dctx[r].is_main_process
       THEN /\ pc' = [pc EXCEPT ![r] = "saving"]
            /\ save_kind' = [save_kind EXCEPT ![r] = "periodic"]
       ELSE /\ pc' = [pc EXCEPT ![r] = "loop_head"]
            /\ UNCHANGED save_kind
    /\ UNCHANGED <<env_rank, world, cfg, resume_file, dctx, accum, writer, params,
                   grads, iter_num, loop_iter, best_val_loss, val_buf,
                   ret, opt_steps, iters_run, coll_log, ckpt_writes,
                   metric_writes, disk, gen, call,
                   scaler, loop_vars>>

\* lines 510-515: destroy_process_group in distributed mode, writer.close()
Teardown(r) ==
    /\ pc[r] = "teardown"
    /\ coll_log' = [coll_log EXCEPT ![r] =
          IF dctx[r].distributed THEN Append(@, "destroy_process_group") ELSE @]
    /\ writer' = [writer EXCEPT ![r] = FALSE]
    /\ pc' = [pc EXCEPT ![r] = "done"]
    /\ UNCHANGED <<env_rank, world, cfg, resume_file, dctx, accum, params, grads,
                   iter_num, loop_iter, best_val_loss, val_buf, ret,
                   save_kind, opt_steps, iters_run, ckpt_writes, metric_writes,
                   disk, gen, call,
                   scaler, loop_vars>>

\* ---- the Trainer specification ---------------------------------------------
NoGen == [pc |-> "off"]

NoCall == [fn |-> "none"]

\* no process has started its training loop: a constructed nn.Module is in
\* training mode
LoopFresh ==
    /\ train_iter = [r \in Ranks |-> 0]
    /\ contribs = [r \in Ranks |-> 0]
    /\ sched_steps = [r \in Ranks |-> 0]
    /\ step_ops = [r \in Ranks |-> <<>>]
    /\ training = [r \in Ranks |-> TRUE]
    /\ val_seen = [r \in Ranks |-> Inf]

Init ==
    /\ env_rank \in BOOLEAN
    /\ world \in 1 .. MaxWorld
    /\ (~env_rank => world = 1)
    /\ cfg \in Configs
    /\ resume_file \in {NoFile} \cup CheckpointFiles
    /\ (cfg.init_from = "scratch" => resume_file = NoFile)
    /\ cfg.data_missing \subseteq Ranks
    /\ pc = [r \in Ranks |-> "new"]
    /\ dctx = [r \in Ranks |-> NoCtx]
    /\ accum = [r \in Ranks |-> cfg.gradient_accumulation_steps]
    /\ writer = [r \in Ranks |-> FALSE]
    /\ params = [r \in Ranks |-> 0]
    /\ grads = [r \in Ranks |-> 0]
    /\ iter_num = [r \in Ranks |-> 0]
    /\ loop_iter = [r \in Ranks |-> 0]
    /\ best_val_loss = [r \in Ranks |-> Inf]
    /\ val_buf = [r \in Ranks |-> <<>>]
    /\ ret = [r \in Ranks |-> "none"]
    /\ save_kind = [r \in Ranks |-> "none"]
    /\ opt_steps = [r \in Ranks |-> 0]
    /\ iters_run = [r \in Ranks |-> 0]
    /\ coll_log = [r \in Ranks |-> <<>>]
    /\ ckpt_writes = [r \in Ranks |-> <<>>]
    /\ metric_writes = [r \in Ranks |-> 0]
    /\ disk = NoDisk
    /\ scaler = [r \in Ranks |-> NoScaler]
    /\ LoopFresh
    /\ gen = NoGen
    /\ call = NoCall

Next ==
    \/ \E r \in Ranks : SetupDistributed(r)
    \/ InitProcessGroup
    \/ \E r \in Ranks : SetupDistributedRest(r)
    \/ \E r \in Ranks : SetupLogging(r)
    \/ \E r \in Ranks : SetupDatasets(r)
    \/ \E r \in Ranks : SetupModel(r)
    \/ DDPWrap
    \/ Barrier
    \/ \E r \in Ranks : TrainStart(r)
    \/ \E r \in Ranks : LoopHead(r)
    \/ AllReduce
    \/ \E r \in Ranks : StepAndLog(r)
    \/ \E r \in Ranks : EvaluateLocal(r)
    \/ ReduceValLoss
    \/ \E r \in Ranks : EvaluateFinish(r)
    \/ \E r \in Ranks : SaveCheckpoint(r)
    \/ \E r \in Ranks : Periodic(r)
    \/ \E r \in Ranks : Teardown(r)

Spec == Init /\ [][Next]_vars

\* ---- properties of the Trainer --------------------------------------------
AtCollective(r) ==
    pc[r] \in {"at_init_pg", "at_ddp", "at_barrier", "at_allreduce", "at_reduce"}

\* setup_distributed has returned in process r
SetupDone(r) == pc[r] \notin {"new", "at_init_pg", "init_pg_done"}

\* the model of process r is wrapped in DDP
Wrapped(r) ==
    /\ dctx[r].distributed
    /\ pc[r] \notin {"new", "at_init_pg", "init_pg_done", "setup_logging",
                     "setup_datasets", "setup_model", "at_ddp"}

\* C1: in a failure-free distributed run every rank issues the same sequence
\* of collectives: no rank waits in a collective while a peer waits in a
\* collective of another kind or has already left train().
C1_SameCollectives ==
    cfg.has_decay_lr =>
        \A r1, r2 \in Ranks :
            AtCollective(r1) =>
                /\ ~(AtCollective(r2) /\ pc[r2] # pc[r1])
                /\ pc[r2] # "done"

\* C2: while rank 0 is persisting a checkpoint in distributed mode, no other
\* rank has started a later training iteration or destroyed the process group.
C2_SaveThenBarrier ==
    \A r \in Ranks :
        (r # 0 /\ pc[0] = "saving" /\ dctx[0].distributed) =>
            /\ iter_num[r] <= iter_num[0]
            /\ pc[r] # "done"

\* C3: a Trainer constructed with init_from = "resume" on a checkpoint written
\* by save_checkpoint has the checkpoint's step counter, best validation loss
\* and weights.
C3_ResumeRoundTrip ==
    \A r \in Ranks :
        (/\ pc[r] = "constructed"
         /\ cfg.init_from = "resume"
         /\ resume_file.exists /\ resume_file.model_ok
         /\ resume_file.has_optimizer) =>
            /\ iter_num[r] = resume_file.iter_num
            /\ best_val_loss[r] = resume_file.best_val_loss
            /\ params[r] = resume_file.model

\* C4: train() runs its loop up to max_iters without a runtime failure and the
\* main process then writes the final checkpoint.
C4_TrainCompletes ==
    \A r \in Ranks :
        /\ pc[r] # "crashed"
        /\ pc[r] = "done" =>
              /\ loop_iter[r] >= cfg.max_iters
              /\ dctx[r].is_main_process =>
                    /\ ckpt_writes[r] # <<>>
                    /\ ckpt_writes[r][Len(ckpt_writes[r])] = "final"

\* C5: replicas that have applied the same number of optimizer steps hold the
\* same parameters.
C5_ReplicasAgree ==
    \A r1, r2 \in Ranks :
        (Wrapped(r1) /\ Wrapped(r2) /\ opt_steps[r1] = opt_steps[r2]) =>
            params[r1] = params[r2]

C5_Witness ==
    /\ world >= 2
    /\ \A r \in Ranks : opt_steps[r] >= 1
    /\ params[0] # InitWeights(0)

\* C6: no rank other than 0 has written a checkpoint or a metric.
C6_OnlyRankZeroWrites ==
    \A r \in Ranks : r # 0 => (ckpt_writes[r] = <<>> /\ metric_writes[r] = 0)

C6_Witness ==
    /\ world >= 2
    /\ ckpt_writes[0] # <<>>
    /\ metric_writes[0] > 0
    /\ \E r \in Ranks : r # 0 /\ pc[r] = "done"

\* lines 272-276: effective_batch_size
EffectiveBatchSize(r) == BatchSize * dctx[r].world_size * accum[r]

\* C7 as stated: after setup the effective batch size equals batch size times
\* the configured accumulation factor, for every world size and factor.
C7_EffectiveBatchStable ==
    \A r \in Ranks :
        SetupDone(r) =>
            EffectiveBatchSize(r) = BatchSize * cfg.gradient_accumulation_steps

\* C7 amended: after setup the effective batch size equals batch size times
\* the configured accumulation factor exactly when the configured factor is a
\* multiple of the world size.
C7_StableIffDivisible ==
    \A r \in Ranks :
        SetupDone(r) =>
            ((EffectiveBatchSize(r) = BatchSize * cfg.gradient_accumulation_steps)
                <=> (cfg.gradient_accumulation_steps % dctx[r].world_size = 0))

C7_Witness ==
    \E r \in Ranks :
        /\ SetupDone(r)
        /\ dctx[r].world_size = 2
        /\ cfg.gradient_accumulation_steps = 2
        /\ accum[r] = 1

\* C8: without RANK in the environment the Trainer has rank 0, local rank 0,
\* world size 1, the main-process flag set, the configured accumulation factor,
\* and has called no collective operation.
C8_SingleProcessNoCollectives ==
    \A r \in Ranks :
        (~env_rank /\ pc[r] # "new") =>
            /\ dctx[r].rank = 0
            /\ dctx[r].local_rank = 0
            /\ dctx[r].world_size = 1
            /\ dctx[r].is_main_process
            /\ accum[r] = cfg.gradient_accumulation_steps
            /\ coll_log[r] = <<>>

C8_Witness ==
    /\ ~env_rank
    /\ pc[0] = "done"
    /\ opt_steps[0] > 0
    /\ metric_writes[0] >= 3
    /\ Len(ckpt_writes[0]) >= 2

\* ---- DeltaGPT.generate (train.py) ------------------------------------------
\* One batch row.  The logits of the last position, after the division by a
\* positive temperature, are represented by their exponentials: a weight
\* w[i] >= 1 for a finite logit, 0 for -inf.  softmax(logits)[i] is
\* w[i] / (sum of w), and the order of the weights is the order of the logits.

\* bounds of the generation model
VocabSize == 3
BlockSize == 2
MaxCtx == 3
MaxNew == 2
MaxWeight == 2
TopPDen == 2

Tokens == 0 .. (VocabSize - 1)
\* top_k = None / top_p = None
None == -1

\* seed contexts: one per length 0 .. MaxCtx (the weights produced by the
\* forward pass are arbitrary, so the seed's tokens do not restrict the steps)
Seeds == {[j \in 1 .. n |-> (j - 1) % VocabSize] : n \in 0 .. MaxCtx}

NoTruncate(idx) == idx
\* line 352: idx_cond, the last block_size tokens of the running sequence
Truncate(idx) ==
    IF Len(idx) <= BlockSize THEN idx
    ELSE SubSeq(idx, Len(idx) - BlockSize + 1, Len(idx))

\* line 317: the assertion of forward
ForwardAccepts(idx_cond) == Len(idx_cond) <= BlockSize

\* torch.topk(logits, k)[0][-1]: the k-th largest value, counted with multiplicity
KthLargest(w, k) ==
    CHOOSE v \in {w[i] : i \in Tokens} :
        /\ Cardinality({i \in Tokens : w[i] > v}) < k
        /\ Cardinality({i \in Tokens : w[i] >= v}) >= k

\* line 363: logits[logits < v[:, [-1]]] = -inf
TopKFilter(w, k) ==
    [i \in Tokens |-> IF w[i] < KthLargest(w, k) THEN 0 ELSE w[i]]

\* the orders in which a sort can list the tokens
Perms ==
    {ord \in [1 .. VocabSize -> Tokens] :
        \A a, b \in 1 .. VocabSize : a # b => ord[a] # ord[b]}

\* torch.sort(logits, descending=True): any order of the tokens in which the
\* values do not increase (the order among equal values is not specified)
DescOrders(w) ==
    {ord \in Perms : \A a \in 1 .. (VocabSize - 1) : w[ord[a]] >= w[ord[a + 1]]}

RECURSIVE CumWeight(_, _, _)
\* torch.cumsum over the sorted values, times the softmax denominator
CumWeight(w, ord, j) == IF j = 0 THEN 0 ELSE w[ord[j]] + CumWeight(w, ord, j - 1)

RemoveUnshifted(w, ord, num, j) ==
    CumWeight(w, ord, j) * TopPDen > num * CumWeight(w, ord, VocabSize)

\* lines 370-373: sorted position j is removed when the cumulative probability
\* of the positions before it exceeds top_p = num / TopPDen; position 1 is kept
SortedRemove(w, ord, num, j) ==
    /\ j > 1
    /\ CumWeight(w, ord, j - 1) * TopPDen > num * CumWeight(w, ord, VocabSize)

\* lines 376-377: scatter to token indices and set the removed logits to -inf
TopPFilter(w, ord, num) ==
    [i \in Tokens |->
        IF \E j \in 1 .. VocabSize : ord[j] = i /\ SortedRemove(w, ord, num, j)
        THEN 0 ELSE w[i]]

\* lines 380-383: the tokens torch.multinomial can return
Support(w) == {i \in Tokens : w[i] > 0}

AppendToCond(idx, tok) == Append(Truncate(idx), tok)
\* line 386: idx = torch.cat((idx, idx_next), dim=1)
Cat(idx, tok) == Append(idx, tok)

\* an exception leaves generate: the assertion of forward ("block_size"),
\* the index -1 into an empty time axis ("empty"), torch.topk ("top_k")
GenFail(g, why) ==
    [g EXCEPT !.pc = "error", !.error = why, !.cond_len = Len(Truncate(g.idx))]

\* lines 355-381: the sets of tokens the two filters can leave with a
\* non-zero probability, over every logits vector the forward pass can return
\* and every order the sort can produce
FilteredSupports(tk, tp) ==
    UNION {LET w1 == IF tk # None THEN TopKFilter(w0, tk) ELSE w0
           IN IF tp = None
              THEN {Support(w1)}
              ELSE {Support(TopPFilter(w1, ord, tp)) : ord \in DescOrders(w1)}
           : w0 \in [Tokens -> 1 .. MaxWeight]}

\* FilteredSupports for each setting of top_k that line 362 accepts and each
\* setting of top_p, as <<top_k, top_p, support>>
SupportTable ==
    UNION {{<<tk, tp, sup>> : sup \in FilteredSupports(tk, tp)} :
             tk \in {None} \cup (1 .. VocabSize), tp \in {None} \cup (0 .. TopPDen)}

GenOverwriteLast(g, sup, tok) ==
    [g EXCEPT !.idx = [g.idx EXCEPT ![Len(g.idx)] = tok],
              !.left = @ - 1, !.steps = @ + 1,
              !.support_size = Cardinality(sup),
              !.cond_len = Len(Truncate(g.idx))]
\* the state after one pass of the loop body in which the filters left the
\* tokens sup and multinomial returned tok
GenAfterStep(g, sup, tok) ==
    [g EXCEPT !.idx = Cat(g.idx, tok), !.left = @ - 1, !.steps = @ + 1,
              !.support_size = Cardinality(sup),
              !.cond_len = Len(Truncate(g.idx))]

\* lines 350-386: one pass of the generation loop
GenStep ==
    /\ gen.pc = "running"
    /\ gen.left > 0
    /\ IF ~ForwardAccepts(Truncate(gen.idx))
       THEN gen' = GenFail(gen, "block_size")
       ELSE IF Len(gen.idx) = 0
       THEN gen' = GenFail(gen, "empty")
       ELSE IF gen.top_k # None /\ gen.top_k \notin 1 .. VocabSize
       THEN gen' = GenFail(gen, "top_k")
       ELSE \E e \in SupportTable :
              /\ e[1] = gen.top_k
              /\ e[2] = gen.top_p
              /\ \E tok \in e[3] : gen' = GenAfterStep(gen, e[3], tok)
    /\ UNCHANGED <<trainer_vars, call>>

\* line 388: return idx
GenReturn ==
    /\ gen.pc = "running"
    /\ gen.left = 0
    /\ gen' = [gen EXCEPT !.pc = "returned"]
    /\ UNCHANGED <<trainer_vars, call>>

\* a call generate(seed, k, temperature > 0, top_k, top_p) on a model whose
\* weights are arbitrary
InitGen ==
    /\ env_rank = FALSE
    /\ world = 1
    /\ cfg = IdleConfig
    /\ resume_file = NoFile
    /\ pc = [r \in Ranks |-> "new"]
    /\ dctx = [r \in Ranks |-> NoCtx]
    /\ accum = [r \in Ranks |-> cfg.gradient_accumulation_steps]
    /\ writer = [r \in Ranks |-> FALSE]
    /\ params = [r \in Ranks |-> 0]
    /\ grads = [r \in Ranks |-> 0]
    /\ iter_num = [r \in Ranks |-> 0]
    /\ loop_iter = [r \in Ranks |-> 0]
    /\ best_val_loss = [r \in Ranks |-> Inf]
    /\ val_buf = [r \in Ranks |-> <<>>]
    /\ ret = [r \in Ranks |-> "none"]
    /\ save_kind = [r \in Ranks |-> "none"]
    /\ opt_steps = [r \in Ranks |-> 0]
    /\ iters_run = [r \in Ranks |-> 0]
    /\ coll_log = [r \in Ranks |-> <<>>]
    /\ ckpt_writes = [r \in Ranks |-> <<>>]
    /\ metric_writes = [r \in Ranks |-> 0]
    /\ disk = NoDisk
    /\ scaler = [r \in Ranks |-> NoScaler]
    /\ LoopFresh
    /\ \E seed \in Seeds, k \in 0 .. MaxNew,
          tk \in {None} \cup (0 .. (VocabSize + 1)),
          tp \in {None} \cup (0 .. TopPDen) :
          gen = [pc |-> "running", seed |-> seed, idx |-> seed, k |-> k,
                 left |-> k, top_k |-> tk, top_p |-> tp, steps |-> 0,
                 support_size |-> 0, cond_len |-> 0, error |-> "none"]
    /\ call = NoCall

NextGen == GenStep \/ GenReturn

SpecGen == InitGen /\ [][NextGen]_vars

\* C9: generate returns a sequence of length len(ctx) + k whose new tokens are
\* in [0, vocab_size), and it does return for every non-empty context, every
\* k >= 0 and every top_k in 1 .. vocab_size or None.
C9_GenerateLength ==
    /\ gen.pc = "returned" =>
          /\ Len(gen.idx) = Len(gen.seed) + gen.k
          /\ \A j \in (Len(gen.seed) + 1) .. Len(gen.idx) : gen.idx[j] \in Tokens
    /\ gen.pc = "error" =>
          \/ gen.seed = <<>>
          \/ (gen.top_k # None /\ gen.top_k \notin 1 .. VocabSize)

C9_Witness ==
    /\ gen.pc = "returned"
    /\ Len(gen.seed) > BlockSize
    /\ gen.k >= 2
    /\ gen.top_k # None
    /\ gen.top_p # None

\* C10: with top-k = K active, at most K tokens have non-zero sampling
\* probability at every generation step.
C10_TopKSupport ==
    (gen.steps > 0 /\ gen.top_k # None) => gen.support_size <= gen.top_k

\* C26: forward rejects an input longer than block_size, and generate never
\* runs into that: the context of every step is the last min(len, block_size)
\* tokens of the running sequence, for every seed length and number of new
\* tokens.
C26_GenerateWithinBlock ==
    /\ gen.pc # "off" => gen.error # "block_size"
    /\ (gen.pc # "off" /\ (gen.steps > 0 \/ gen.pc = "error")) =>
          /\ gen.cond_len <= BlockSize
          /\ gen.cond_len =
                MinOf(IF gen.pc = "error" THEN Len(gen.idx) ELSE Len(gen.idx) - 1,
                      BlockSize)

C26_Witness ==
    /\ gen.pc = "returned"
    /\ Len(gen.seed) > BlockSize
    /\ gen.steps >= 2
    /\ gen.cond_len = BlockSize
    /\ gen.error = "none"

\* C33: every step of generate keeps the seed context and the tokens sampled
\* so far in place and appends exactly one token; a failing step and the return
\* change nothing; the sequence returned is the whole running sequence, however
\* long, not the truncated input of the forward pass.
C33_GenerateOnlyAppends ==
    [][(gen.pc # "off" /\ gen'.pc # "off") =>
          /\ gen'.seed = gen.seed
          /\ Len(gen'.idx) >= Len(gen.idx)
          /\ SubSeq(gen'.idx, 1, Len(gen.idx)) = gen.idx
          /\ SubSeq(gen'.idx, 1, Len(gen'.seed)) = gen'.seed
          /\ Len(gen'.idx) = Len(gen'.seed) + gen'.steps
          /\ IF gen'.steps # gen.steps
             THEN /\ gen'.steps = gen.steps + 1
                  /\ Len(gen'.idx) = Len(gen.idx) + 1
             ELSE gen'.idx = gen.idx
      ]_vars

C33_Witness ==
    /\ gen.pc = "returned"
    /\ gen.steps >= 1
    /\ Len(gen.idx) > BlockSize + 1
    /\ SubSeq(gen.idx, 1, Len(gen.seed)) = gen.seed
    /\ gen.seed # <<>>

\* setup_model_and_optimizer has returned in process r and train() has not
\* started its loop
JustConstructed(r) ==
    \/ pc[r] \in {"at_ddp", "constructed"}
    \/ pc[r] = "at_barrier" /\ ret[r] = "constructed"

\* C16: any failure while loading the resume checkpoint (missing file, missing
\* or mismatching keys, any exception inside load_checkpoint) is caught, does
\* not abort construction, and leaves step counter 0 and best validation loss
\* infinity.
C16_LoadFailureFallsBack ==
    \A r \in Ranks :
        (cfg.init_from = "resume" /\ LoadRaises(resume_file, dctx[r].distributed)) =>
            /\ JustConstructed(r) =>
                  (iter_num[r] = 0 /\ best_val_loss[r] = Inf)
            /\ pc[r] = "crashed" => iters_run[r] >= 1
            /\ pc[r] = "exited" => r \in cfg.data_missing

C16_Witness ==
    \E r \in Ranks :
        /\ cfg.init_from = "resume"
        /\ resume_file.exists
        /\ ~resume_file.model_ok
        /\ pc[r] = "constructed"
        /\ iter_num[r] = 0
        /\ best_val_loss[r] = Inf

\* C17: when dataset setup fails on a rank in distributed mode, that rank
\* destroys the process group before it exits, and no peer is left waiting in
\* a collective the exited rank will never join.
C17_NoPeerHangs ==
    \A r, q \in Ranks :
        (pc[r] = "exited" /\ dctx[r].distributed) =>
            /\ coll_log[r][Len(coll_log[r])] = "destroy_process_group"
            /\ ~AtCollective(q)

\* process r takes the optimizer-step branch of a mixed-precision iteration
ScaledStepBoundary(r) ==
    /\ pc[r] = "after_backward"
    /\ pc'[r] # "after_backward"
    /\ cfg.mixed_precision
    /\ (iter_num[r] + 1) % accum[r] = 0

\* C18: in mixed precision, when the gradients at an optimizer-step boundary
\* hold inf / NaN, the step is skipped (parameters and optimizer step count
\* unchanged), the loss scale decreases, the gradients are zeroed and the loop
\* goes on without raising; the step that completes a run of GrowthInterval
\* overflow-free steps increases the scale.
C18_OverflowSkipsStep ==
    [][\A r \in Ranks :
         /\ (ScaledStepBoundary(r) /\ grads[r] = NonFinite) =>
               /\ params'[r] = params[r]
               /\ opt_steps'[r] = opt_steps[r]
               /\ scaler'[r].scale < scaler[r].scale
               /\ grads'[r] = 0
               /\ pc'[r] \in {"evaluate", "periodic"}
         /\ (ScaledStepBoundary(r) /\ grads[r] # NonFinite) =>
               /\ opt_steps'[r] = opt_steps[r] + 1
               /\ scaler[r].growth_tracker + 1 = GrowthInterval =>
                     scaler'[r].scale > scaler[r].scale
               /\ scaler[r].growth_tracker + 1 # GrowthInterval =>
                     scaler'[r].scale = scaler[r].scale]_vars

\* an overflow was skipped and the run went on to its end
C18_Witness ==
    \E r \in Ranks :
        /\ cfg.mixed_precision
        /\ scaler[r].scale < InitScale
        /\ scaler[r].scale > 0
        /\ opt_steps[r] >= 1
        /\ pc[r] = "done"

\* C19: in distributed mode the value evaluate returns on rank 0 is the sum of
\* the validation losses of all ranks and batches divided by world size x n.
C19_CrossReplicaAverage ==
    (/\ dctx[0].distributed
     /\ pc[0] = "eval_finish"
     /\ Len(val_buf[0]) >= 1) =>
        AvgValLoss(0) * (world * Len(val_buf[0])) = SumSeq(val_buf[0])

\* ---- one sampling step of generate ----------------------------------------
\* no Trainer is running: its one process stays at position p
TrainerAt(p) ==
    /\ env_rank = FALSE
    /\ world = 1
    /\ cfg = IdleConfig
    /\ resume_file = NoFile
    /\ pc = [r \in Ranks |-> p]
    /\ dctx = [r \in Ranks |-> NoCtx]
    /\ accum = [r \in Ranks |-> cfg.gradient_accumulation_steps]
    /\ writer = [r \in Ranks |-> FALSE]
    /\ params = [r \in Ranks |-> 0]
    /\ grads = [r \in Ranks |-> 0]
    /\ iter_num = [r \in Ranks |-> 0]
    /\ loop_iter = [r \in Ranks |-> 0]
    /\ best_val_loss = [r \in Ranks |-> Inf]
    /\ val_buf = [r \in Ranks |-> <<>>]
    /\ ret = [r \in Ranks |-> "none"]
    /\ save_kind = [r \in Ranks |-> "none"]
    /\ opt_steps = [r \in Ranks |-> 0]
    /\ iters_run = [r \in Ranks |-> 0]
    /\ coll_log = [r \in Ranks |-> <<>>]
    /\ ckpt_writes = [r \in Ranks |-> <<>>]
    /\ metric_writes = [r \in Ranks |-> 0]
    /\ disk = NoDisk
    /\ scaler = [r \in Ranks |-> NoScaler]
    /\ LoopFresh

TrainerIdle == TrainerAt("new")

\* lines 355-358: the forward pass has returned the last-position logits
\* (any values, given as exponentials), temperature > 0
InitSample ==
    /\ TrainerIdle
    /\ gen = NoGen
    /\ \E w0 \in [Tokens -> 1 .. MaxWeight],
          tk \in {None} \cup (0 .. (VocabSize + 1)),
          tp \in {None} \cup (0 .. TopPDen) :
          call = [fn |-> "sample", pc |-> "logits", logits |-> w0,
                  top_k |-> tk, top_p |-> tp, after_top_k |-> w0,
                  order |-> <<>>, after_top_p |-> w0, tok |-> None]

\* lines 360-383: the filters and torch.multinomial
SampleToken ==
    /\ call.fn = "sample"
    /\ call.pc = "logits"
    /\ IF call.top_k # None /\ call.top_k \notin 1 .. VocabSize
       THEN call' = [call EXCEPT !.pc = "error"]
       ELSE LET w1 == IF call.top_k # None
                      THEN TopKFilter(call.logits, call.top_k)
                      ELSE call.logits
            IN IF call.top_p = None
               THEN \E tok \in Support(w1) :
                      call' = [call EXCEPT !.pc = "sampled", !.after_top_k = w1,
                                           !.after_top_p = w1, !.tok = tok]
               ELSE \E ord \in DescOrders(w1) :
                      LET w2 == TopPFilter(w1, ord, call.top_p)
                      IN \E tok \in Support(w2) :
                            call' = [call EXCEPT !.pc = "sampled",
                                                 !.after_top_k = w1, !.order = ord,
                                                 !.after_top_p = w2, !.tok = tok]
    /\ UNCHANGED <<trainer_vars, gen>>

NextSample == SampleToken

SpecSample == InitSample /\ [][NextSample]_vars

RECURSIVE Mass(_, _)
\* the probability of a set of tokens under softmax(w), times the softmax
\* denominator
Mass(w, S) ==
    IF S = {} THEN 0
    ELSE LET i == CHOOSE x \in S : TRUE IN w[i] + Mass(w, S \ {i})

\* the top-p step has run in the sampling step
NucleusActive == call.fn = "sample" /\ call.pc = "sampled" /\ call.top_p # None

\* the tokens the top-p step kept
Kept == Support(call.after_top_p)

\* the cumulative probability of S exceeds top_p
ExceedsTopP(S) ==
    Mass(call.after_top_k, S) * TopPDen
        > call.top_p * Mass(call.after_top_k, Tokens)

\* S is the first tokens of some descending-probability order
DescPrefix(S) ==
    \A i \in S, j \in Tokens \ S : call.after_top_k[i] >= call.after_top_k[j]

\* S is non-empty, contains a highest-probability token and has cumulative
\* probability >= top_p
NucleusBasics(S) ==
    /\ S # {}
    /\ \E i \in S : \A j \in Tokens : call.after_top_k[i] >= call.after_top_k[j]
    /\ Mass(call.after_top_k, S) * TopPDen
          >= call.top_p * Mass(call.after_top_k, Tokens)

\* S is the minimal descending-probability prefix whose cumulative probability
\* exceeds top_p
MinimalPrefix(S) ==
    /\ DescPrefix(S)
    /\ ExceedsTopP(S)
    /\ \A T \in SUBSET S : (T # S /\ DescPrefix(T)) => ~ExceedsTopP(T)

\* C11 as stated: with top_p active the kept set is non-empty, contains the
\* highest-probability token, has cumulative probability >= p and is the
\* minimal descending-probability prefix whose cumulative probability exceeds p.
C11_NucleusMinimalPrefix ==
    NucleusActive => (NucleusBasics(Kept) /\ MinimalPrefix(Kept))

\* C11 amended: with 0 <= p <= 1 active the kept set is non-empty, contains a
\* highest-probability token and has cumulative probability >= p; for p < 1 it
\* is the minimal descending-probability prefix whose cumulative probability
\* exceeds p, and for p = 1, where no prefix exceeds p, it is every token the
\* top-k step left with a non-zero probability.
C11_NucleusPrefixBelowOne ==
    NucleusActive =>
        /\ NucleusBasics(Kept)
        /\ (call.top_p < TopPDen => MinimalPrefix(Kept))
        /\ (call.top_p = TopPDen => Kept = Support(call.after_top_k))

C11_Witness ==
    /\ NucleusActive
    /\ call.top_p > 0
    /\ call.top_p < TopPDen
    /\ Kept # Support(call.after_top_k)
    /\ Cardinality(Kept) >= 2

\* ---- DeltaGPT construction and configure_optimizers ------------------------
MaxLayer == 2
MaxHead == 2
MaxEmbd == 4

\* the fields of ModelConfig the constructor's outcome depends on
ModelConfigs ==
    [n_layer : 0 .. MaxLayer, n_head : 0 .. MaxHead, n_embd : 1 .. MaxEmbd,
     bias : BOOLEAN]

\* config.n_embd % config.n_head == 0, which raises for n_head = 0
Divisible(n_embd, n_head) == n_head # 0 /\ n_embd % n_head = 0

\* the parameters nn.Linear / nn.LayerNorm register with bias=b
WithBias(b) == IF b THEN {"weight", "bias"} ELSE {"weight"}

Module(name, type, own) == [name |-> name, type |-> type, own |-> own]

\* Block.__init__, CausalSelfAttention.__init__ and MLP.__init__ for blocks.i
BlockModules(i, c) ==
    LET b == <<"blocks", ToString(i)>>
    IN {Module(b, "Block", {}),
        Module(b \o <<"ln_1">>, "LayerNorm", WithBias(c.bias)),
        Module(b \o <<"attn">>, "CausalSelfAttention", {}),
        Module(b \o <<"attn", "c_attn">>, "Linear", WithBias(c.bias)),
        Module(b \o <<"attn", "c_proj">>, "Linear", WithBias(c.bias)),
        Module(b \o <<"attn", "attn_dropout">>, "Dropout", {}),
        Module(b \o <<"attn", "resid_dropout">>, "Dropout", {}),
        Module(b \o <<"ln_2">>, "LayerNorm", WithBias(c.bias)),
        Module(b \o <<"mlp">>, "MLP", {}),
        Module(b \o <<"mlp", "c_fc">>, "Linear", WithBias(c.bias)),
        Module(b \o <<"mlp", "gelu">>, "GELU", {}),
        Module(b \o <<"mlp", "c_proj">>, "Linear", WithBias(c.bias)),
        Module(b \o <<"mlp", "dropout">>, "Dropout", {})}

\* DeltaGPT.__init__: the module tree, each module with the parameters it
\* registers itself
ModuleTree(c) ==
    {Module(<<>>, "DeltaGPT", {}),
     Module(<<"tok_emb">>, "Embedding", {"weight"}),
     Module(<<"pos_emb">>, "Embedding", {"weight"}),
     Module(<<"drop">>, "Dropout", {}),
     Module(<<"blocks">>, "ModuleList", {}),
     Module(<<"ln_f">>, "LayerNorm", WithBias(c.bias)),
     Module(<<"head">>, "Linear", {"weight"})}
    \cup UNION {BlockModules(i, c) : i \in 0 .. (c.n_layer - 1)}

\* the assert of CausalSelfAttention.__init__ runs once per block
ConstructionFails(c) == c.n_layer >= 1 /\ ~Divisible(c.n_embd, c.n_head)

InitModel ==
    /\ TrainerIdle
    /\ gen = NoGen
    /\ \E c \in ModelConfigs :
          call = [fn |-> "DeltaGPT", pc |-> "config", config |-> c,
                  modules |-> {}, decay |-> {}, no_decay |-> {}]

\* DeltaGPT(config)
ConstructModel ==
    /\ call.fn = "DeltaGPT"
    /\ call.pc = "config"
    /\ IF ConstructionFails(call.config)
       THEN call' = [call EXCEPT !.pc = "construct_failed"]
       ELSE call' = [call EXCEPT !.pc = "constructed",
                                 !.modules = ModuleTree(call.config)]
    /\ UNCHANGED <<trainer_vars, gen>>

IsPrefix(a, b) == Len(a) <= Len(b) /\ SubSeq(b, 1, Len(a)) = a

\* m.named_parameters(): the parameters of m and of every module below it,
\* named relative to m
NamedParameters(m, modules) ==
    {SubSeq(d.name, Len(m.name) + 1, Len(d.name)) \o <<pn>> :
        <<d, pn>> \in {x \in modules \X {"weight", "bias"} :
                         IsPrefix(m.name, x[1].name) /\ x[2] \in x[1].own}}

EndsWith(pn, word) == pn[Len(pn)] = word

AllWeightModules == {"Linear", "LayerNorm", "Embedding"}
\* line 397
WhitelistWeightModules == {"Linear"}

\* line 398
BlacklistWeightModules == {"LayerNorm", "Embedding"}

\* lines 400-408: the names added to decay
DecayNames(modules) ==
    UNION {{m.name \o pn : pn \in {q \in NamedParameters(m, modules) :
                /\ ~EndsWith(q, "bias")
                /\ EndsWith(q, "weight")
                /\ m.type \in WhitelistWeightModules}} : m \in modules}

\* lines 400-411: the names added to no_decay
NoDecayNames(modules) ==
    UNION {{m.name \o pn : pn \in {q \in NamedParameters(m, modules) :
                \/ EndsWith(q, "bias")
                \/ /\ EndsWith(q, "weight")
                   /\ m.type \notin WhitelistWeightModules
                   /\ m.type \in BlacklistWeightModules}} : m \in modules}

\* line 415: the names of self.named_parameters()
ParamDict(modules) ==
    NamedParameters(CHOOSE m \in modules : m.name = <<>>, modules)

\* line 418: assert len(inter_params) == 0
InterEmpty(decay, no_decay) == decay \cap no_decay = {}

Unchecked(names, decay, no_decay) == TRUE
\* line 419: assert len(param_dict.keys() - union_params) == 0
AllSeparated(names, decay, no_decay) == names \ (decay \cup no_decay) = {}

\* model.configure_optimizers(...)
ConfigureOptimizers ==
    /\ call.fn = "DeltaGPT"
    /\ call.pc = "constructed"
    /\ LET decay == DecayNames(call.modules)
           no_decay == NoDecayNames(call.modules)
       IN IF /\ InterEmpty(decay, no_decay)
             /\ AllSeparated(ParamDict(call.modules), decay, no_decay)
          THEN call' = [call EXCEPT !.pc = "optimizer", !.decay = decay,
                                    !.no_decay = no_decay]
          ELSE call' = [call EXCEPT !.pc = "assert_failed", !.decay = decay,
                                    !.no_decay = no_decay]
    /\ UNCHANGED <<trainer_vars, gen>>

NextModel == ConstructModel \/ ConfigureOptimizers

SpecModel == InitModel /\ [][NextModel]_vars

\* C12: for every layer count, head count and embedding width, constructing
\* the model fails if and only if the embedding width is not evenly divisible
\* by the head count.
C12_ConstructFailsIffIndivisible ==
    (call.fn = "DeltaGPT" /\ call.pc # "config") =>
        (call.pc = "construct_failed"
            <=> ~Divisible(call.config.n_embd, call.config.n_head))

\* the full names of the parameters of the modules of the given types
OwnedNames(modules, types, pns) ==
    {x[1].name \o <<x[2]>> :
        x \in {y \in modules \X pns : y[1].type \in types /\ y[2] \in y[1].own}}

\* C13: for every configuration that constructs, configure_optimizers returns
\* an optimizer; the decay set and the exempt set are disjoint, their union is
\* the full parameter set, the decay set is exactly the weights of the linear
\* layers and the exempt set is exactly all biases plus the weights of the
\* normalization and embedding layers.
C13_ParameterPartition ==
    /\ (call.fn = "DeltaGPT" /\ call.pc \in {"optimizer", "assert_failed"}) =>
          /\ call.pc = "optimizer"
          /\ call.decay \cap call.no_decay = {}
          /\ call.decay \cup call.no_decay = ParamDict(call.modules)
          /\ call.decay = OwnedNames(call.modules, {"Linear"}, {"weight"})
          /\ call.no_decay =
                OwnedNames(call.modules, {"Linear", "LayerNorm", "Embedding"},
                           {"bias"})
                \cup OwnedNames(call.modules, {"LayerNorm", "Embedding"},
                                {"weight"})
    /\ (call.fn = "DeltaGPT" /\ call.pc = "constructed") =>
          ParamDict(call.modules) =
              OwnedNames(call.modules, {"Linear", "LayerNorm", "Embedding"},
                         {"weight", "bias"})

C13_Witness ==
    /\ call.fn = "DeltaGPT"
    /\ call.pc = "optimizer"
    /\ call.config.bias
    /\ call.config.n_layer >= 2
    /\ <<"blocks", "1", "mlp", "c_fc", "weight">> \in call.decay
    /\ <<"blocks", "1", "ln_2", "weight">> \in call.no_decay
    /\ <<"blocks", "0", "attn", "c_attn", "bias">> \in call.no_decay

\* ---- get_cosine_lr_schedule ------------------------------------------------
MaxWarmup == 10
MaxDecayIters == 100
\* min_lr is a multiple of 1 / MinLrDen
MinLrDen == 10

\* math.cos is evaluated to three decimals
LrScale == 1000

Max(a, b) == IF a >= b THEN a ELSE b

\* comparison of the fractions p[1] / p[2] and q[1] / q[2], positive denominators
RatLeq(p, q) == p[1] * q[2] <= q[1] * p[2]

RatEq(p, q) == p[1] * q[2] = q[1] * p[2]

\* LrScale * cos(pi * k / n) for 0 <= k / n <= 1/2, by Bhaskara's rational
\* approximation (exact at k / n = 0, 1/3 and 1/2, within 0.002 elsewhere)
CosHalf(k, n) == (LrScale * (n * n - 4 * k * k)) \div (n * n + k * k)

\* LrScale * math.cos(math.pi * k / n)
CosPi(k, n) == IF 2 * k <= n THEN CosHalf(k, n) ELSE -CosHalf(n - k, n)

UnclampedRatio(step, warmup_iters, lr_decay_iters) ==
    <<step - warmup_iters, Max(1, lr_decay_iters - warmup_iters)>>

\* line 441: decay_ratio, as a fraction
DecayRatio(step, warmup_iters, lr_decay_iters) ==
    LET k == step - warmup_iters
        n == Max(1, lr_decay_iters - warmup_iters)
    IN IF k >= n THEN <<1, 1>> ELSE <<k, n>>

WarmupOffByOne(step, warmup_iters) == <<step, warmup_iters + 1>>

\* line 438: the multiplier of the warmup phase, as a fraction
WarmupMult(step, warmup_iters) == <<step, Max(1, warmup_iters)>>

\* lines 435-443: lr_lambda(step) as a fraction; min_lr = min_lr_num / MinLrDen
lr_lambda(step, warmup_iters, lr_decay_iters, min_lr_num) ==
    IF step < warmup_iters
    THEN WarmupMult(step, warmup_iters)
    ELSE LET r == DecayRatio(step, warmup_iters, lr_decay_iters)
             cos == CosPi(r[1], r[2])
         IN <<2 * LrScale * min_lr_num + (LrScale + cos) * (MinLrDen - min_lr_num),
              2 * LrScale * MinLrDen>>

\* get_cosine_lr_schedule(optimizer, warmup_iters, lr_decay_iters, min_lr):
\* LambdaLR evaluates lr_lambda(0) when it is constructed
InitLr ==
    /\ TrainerIdle
    /\ gen = NoGen
    /\ \E w \in 0 .. MaxWarmup,
          d \in (0 .. (MaxWarmup + 2)) \cup {MaxDecayIters},
          a \in {0, 1, MinLrDen} :
          call = [fn |-> "lr_lambda", warmup_iters |-> w, lr_decay_iters |-> d,
                  min_lr_num |-> a, step |-> 0,
                  mult |-> lr_lambda(0, w, d, a), prev |-> lr_lambda(0, w, d, a)]

\* lr_scheduler.step(): LambdaLR evaluates lr_lambda at the next step
SchedulerStep ==
    /\ call.fn = "lr_lambda"
    /\ call.step <= MaxDecayIters
    /\ call' = [call EXCEPT !.step = @ + 1, !.prev = call.mult,
                            !.mult = lr_lambda(call.step + 1, call.warmup_iters,
                                               call.lr_decay_iters,
                                               call.min_lr_num)]
    /\ UNCHANGED <<trainer_vars, gen>>

NextLr == SchedulerStep

SpecLr == InitLr /\ [][NextLr]_vars

\* C14: the multiplier is 0 at step 0 whenever warmup > 0, and it does not
\* increase from one step to the next for all steps >= warmup, for every
\* warmup, decay window and min_lr in [0, 1].
C14_ZeroStartNonIncreasing ==
    call.fn = "lr_lambda" =>
        /\ (call.warmup_iters > 0 /\ call.step = 0) => call.mult[1] = 0
        /\ (call.step >= 1 /\ call.step - 1 >= call.warmup_iters) =>
              RatLeq(call.mult, call.prev)

C14_Witness ==
    /\ call.fn = "lr_lambda"
    /\ call.warmup_iters > 0
    /\ call.lr_decay_iters > call.warmup_iters + 1
    /\ call.step - 1 >= call.warmup_iters
    /\ call.min_lr_num \notin {0, MinLrDen}
    /\ ~RatEq(call.mult, call.prev)
    /\ ~RatEq(call.mult, <<call.min_lr_num, MinLrDen>>)

\* C15: for warmup < decay window the multiplier is step / warmup below warmup,
\* 1 at step = warmup and min_lr at every step >= the decay window; with
\* warmup = 10, decay window = 100 and min_lr = 0.1 it is 0 at step 0, 1 at
\* step 10 and 0.1 at step 100.
C15_WarmupPeakFloor ==
    (call.fn = "lr_lambda" /\ call.warmup_iters < call.lr_decay_iters) =>
        /\ call.step < call.warmup_iters =>
              call.mult[1] * call.warmup_iters = call.step * call.mult[2]
        /\ call.step = call.warmup_iters => RatEq(call.mult, <<1, 1>>)
        /\ call.step >= call.lr_decay_iters =>
              RatEq(call.mult, <<call.min_lr_num, MinLrDen>>)
        /\ (/\ call.warmup_iters = 10
            /\ call.lr_decay_iters = 100
            /\ call.min_lr_num * 10 = MinLrDen) =>
              /\ call.step = 0 => RatEq(call.mult, <<0, 1>>)
              /\ call.step = 10 => RatEq(call.mult, <<1, 1>>)
              /\ call.step = 100 => RatEq(call.mult, <<1, 10>>)

C15_Witness ==
    /\ call.fn = "lr_lambda"
    /\ call.warmup_iters = 10
    /\ call.lr_decay_iters = 100
    /\ call.min_lr_num * 10 = MinLrDen
    /\ call.step = 100
    /\ RatEq(call.mult, <<1, 10>>)

\* ---- DeltaGPT.forward: causal self-attention -------------------------------
\* Values are integers.  Position-wise layers (LayerNorm, MLP, projections,
\* head) are position-wise integer maps, one head of size 1 is kept, and
\* dropout is off.

\* lines 319-327: token embedding plus position embedding
Embed(idx) == [t \in 1 .. Len(idx) |-> (idx[t] + 1) + t]

\* exp of the scaled score q . k: any positive function of q and k
ExpScore(q, k) == 1 + ((q * k) % 3)

AllOnes(t, u) == 1
\* line 210: torch.tril(torch.ones(block_size, block_size))
Tril(t, u) == IF u <= t THEN 1 ELSE 0

\* position t may attend to position u: is_causal=True on the fused path
\* (lines 226-231), masked_fill(mask == 0, -inf) on the explicit path (line 235)
Allowed(flash, t, u) == IF flash THEN u <= t ELSE Tril(t, u) # 0

\* the softmax numerator of position t for position u; exp(-inf) = 0
AttnWeight(x, flash, t, u) ==
    IF Allowed(flash, t, u) THEN ExpScore(x[t], x[u]) ELSE 0

\* lines 224-237: y[t] = sum_u softmax(att)[t, u] * v[u], as <<numerator,
\* denominator>>
Attention(x, flash) ==
    [t \in 1 .. Len(x) |->
        <<SumSeq([u \in 1 .. Len(x) |-> AttnWeight(x, flash, t, u) * x[u]]),
          SumSeq([u \in 1 .. Len(x) |-> AttnWeight(x, flash, t, u)])>>]

\* Block.forward: the residual stream after one block
BlockForward(x, flash) ==
    LET y == Attention(x, flash)
    IN [t \in 1 .. Len(x) |-> x[t] + (y[t][1] \div y[t][2])]

RECURSIVE Blocks(_, _, _)
\* lines 330-331: for block in self.blocks
Blocks(x, flash, n) ==
    IF n = 0 THEN x ELSE Blocks(BlockForward(x, flash), flash, n - 1)

\* lines 333-337: ln_f and head, applied to each position on its own
LmHead(x) == [t \in 1 .. Len(x) |-> 2 * x[t] + 1]

\* two inputs of the same length T <= block_size to the same model
InitForward ==
    /\ TrainerIdle
    /\ gen = NoGen
    /\ \E T \in 1 .. BlockSize, flash \in BOOLEAN, n \in 1 .. MaxLayer :
          \E a, b \in [1 .. T -> Tokens] :
             call = [fn |-> "forward", pc |-> "input", flash |-> flash,
                     n_layer |-> n, idx_a |-> a, idx_b |-> b,
                     att_a |-> <<>>, att_b |-> <<>>,
                     logits_a |-> <<>>, logits_b |-> <<>>]

\* model(idx_a) and model(idx_b): the attention output of the last block and
\* the logits
Forward ==
    /\ call.fn = "forward"
    /\ call.pc = "input"
    /\ call' = [call EXCEPT
          !.pc = "output",
          !.att_a = Attention(Blocks(Embed(call.idx_a), call.flash,
                                     call.n_layer - 1), call.flash),
          !.att_b = Attention(Blocks(Embed(call.idx_b), call.flash,
                                     call.n_layer - 1), call.flash),
          !.logits_a = LmHead(Blocks(Embed(call.idx_a), call.flash, call.n_layer)),
          !.logits_b = LmHead(Blocks(Embed(call.idx_b), call.flash, call.n_layer))]
    /\ UNCHANGED <<trainer_vars, gen>>

NextForward == Forward

SpecForward == InitForward /\ [][NextForward]_vars

\* the two inputs agree on positions 1 .. t
AgreeUpTo(t) == \A u \in 1 .. t : call.idx_a[u] = call.idx_b[u]

\* C20: two inputs that agree on positions 0..t yield the same attention
\* output and the same logits at position t, whatever the later tokens, on the
\* fused path and on the explicit-mask path, with dropout off.
C20_ForwardCausal ==
    (call.fn = "forward" /\ call.pc = "output") =>
        \A t \in 1 .. Len(call.idx_a) :
            AgreeUpTo(t) =>
                /\ call.att_a[t] = call.att_b[t]
                /\ call.logits_a[t] = call.logits_b[t]

C20_Witness ==
    /\ call.fn = "forward"
    /\ call.pc = "output"
    /\ ~call.flash
    /\ call.n_layer >= 2
    /\ Len(call.idx_a) >= 2
    /\ AgreeUpTo(1)
    /\ ~AgreeUpTo(2)
    /\ call.logits_a[1] = call.logits_b[1]
    /\ call.logits_a[2] # call.logits_b[2]

\* ---- train() of train.py: the single-process loop ---------------------------
\* what train() reads from its arguments and from the data directory:
\* data_ok is FALSE when CommandDataset or DataLoader raises (lines 522-547);
\* the training loader keeps the last partial batch and so has a batch
\* whenever it was built; the validation split may hold no command
TrainArgs ==
    {a \in [gradient_accumulation_steps : 1 .. MaxAccum,
            max_iters : {0, 1, MaxIters, 2 * MaxIters},
            eval_interval : {1, MaxEvalInterval},
            eval_iters : {MaxValBatches},
            val_batches : {0, 1, MaxValBatches + 1},
            grad_clip : {0, GradClip},
            train_batches : 1 .. MaxTrainBatches,
            data_ok : BOOLEAN] :
        \* a long run, a run without clipping, a run on another number of
        \* training batches and a call whose datasets fail are explored with
        \* one setting of the options they do not interact with
        /\ a.max_iters > MaxIters =>
               /\ a.eval_interval = MaxEvalInterval
               /\ a.val_batches = 1
        /\ (a.grad_clip = 0 \/ a.train_batches # 1) =>
               /\ a.eval_interval = 1
               /\ a.val_batches = 1
               /\ a.max_iters <= MaxIters
        /\ a.grad_clip = 0 => a.train_batches = 1
        /\ ~a.data_ok =>
               /\ a.gradient_accumulation_steps = 1
               /\ a.max_iters = 0
               /\ a.eval_interval = 1
               /\ a.val_batches = 0
               /\ a.grad_clip = GradClip
               /\ a.train_batches = 1}

NoFiles == [step |-> NoFile, latest |-> NoFile, final |-> NoFile]

\* the checkpoint dictionaries of lines 656-662 and 676-682
Bundle(model, step, best) ==
    [exists |-> TRUE, model_ok |-> TRUE, has_optimizer |-> TRUE,
     model |-> model, iter_num |-> step, best_val_loss |-> best]

\* train(args) is called
TrainCall(a) ==
    [fn |-> "train", pc |-> "datasets", args |-> a,
     iter_num |-> 0, iters_done |-> 0, train_iter |-> 0,
     params |-> Seed, grads |-> 0, contribs |-> 0,
     opt_steps |-> 0, sched_steps |-> 0, step_ops |-> <<>>,
     training |-> TRUE, best_val_loss |-> Inf, val_seen |-> Inf,
     val_count |-> 0, last_val |-> Inf, saves |-> 0,
     files |-> NoFiles]

\* no Trainer is constructed in the process that calls train()
InitTrain ==
    /\ TrainerAt("off")
    /\ gen = NoGen
    /\ \E a \in TrainArgs : call = TrainCall(a)

\* lines 520-580: datasets and loaders (the handler logs and returns), model,
\* optimizer, scheduler, model.train(), best_val_loss, iter(train_loader)
TrainSetup ==
    /\ call.fn = "train"
    /\ call.pc = "datasets"
    /\ call' = [call EXCEPT !.pc = IF call.args.data_ok THEN "loop_head"
                                                         ELSE "returned"]
    /\ UNCHANGED <<trainer_vars, gen>>

\* lines 582-601: the next value of iter_num, the batch, forward and backward;
\* after the loop, lines 675-694: the final checkpoint
TrainLoopHead ==
    /\ call.fn = "train"
    /\ call.pc = "loop_head"
    /\ IF call.iter_num < call.args.max_iters
       THEN \E g \in GradVals :
              call' = [call EXCEPT
                 !.pc = "after_backward",
                 !.train_iter = NextBatch(@, call.args.train_batches),
                 !.grads = @ + g,
                 !.contribs = @ + 1]
       ELSE call' = [call EXCEPT
                 !.pc = "done",
                 !.saves = @ + 1,
                 !.files.final = Bundle(call.params, call.args.max_iters,
                                        call.best_val_loss)]
    /\ UNCHANGED <<trainer_vars, gen>>

\* the end of one pass of the loop body
TrainNextIter(c) ==
    [c EXCEPT !.pc = "loop_head", !.iter_num = @ + 1, !.iters_done = @ + 1]

\* lines 603-626: the optimizer step at the accumulation boundary, logging
TrainStep ==
    /\ call.fn = "train"
    /\ call.pc = "after_backward"
    /\ LET stepped ==
             IF Boundary(call.iter_num, call.args.gradient_accumulation_steps)
             THEN [call EXCEPT
                     !.params = @ - Clip(call.grads, call.args.grad_clip),
                     !.opt_steps = @ + 1,
                     !.grads = 0,
                     !.contribs = 0,
                     !.sched_steps = @ + 1,
                     !.step_ops = BoundaryOps(call.args.grad_clip # 0, FALSE)]
             ELSE [call EXCEPT !.step_ops = <<>>]
       IN call' = IF call.iter_num % call.args.eval_interval = 0
                  THEN [stepped EXCEPT !.pc = "validate"]
                  ELSE TrainNextIter(stepped)
    /\ UNCHANGED <<trainer_vars, gen>>

\* line 645: sum(val_losses) / len(val_losses)
TrainAvg(vl) == SumSeq(vl) \div Len(vl)

\* lines 628-673: the validation block: model.eval(), at most eval_iters
\* batches, the average (ZeroDivisionError on an empty list), the checkpoint
\* of an improvement, model.train()
TrainValidate ==
    /\ call.fn = "train"
    /\ call.pc = "validate"
    /\ \E vl \in [1 .. MinOf(call.args.val_batches, call.args.eval_iters)
                     -> LossVals] :
          IF vl = <<>>
          THEN call' = [call EXCEPT !.pc = "crashed", !.training = FALSE,
                                    !.val_count = 0]
          ELSE LET avg == TrainAvg(vl)
                   seen == [call EXCEPT !.val_seen = MinOf(@, avg),
                                        !.last_val = avg,
                                        !.val_count = Len(vl)]
               IN call' = TrainNextIter(
                     IF Improves(avg, call.best_val_loss)
                     THEN [seen EXCEPT
                             !.best_val_loss = avg,
                             !.saves = @ + 1,
                             !.files.step = Bundle(call.params, call.iter_num, avg),
                             !.files.latest = Bundle(call.params, call.iter_num, avg)]
                     ELSE seen)
    /\ UNCHANGED <<trainer_vars, gen>>

NextTrain == TrainSetup \/ TrainLoopHead \/ TrainStep \/ TrainValidate

SpecTrain == InitTrain /\ [][NextTrain]_vars

\* ---- both training loops ----------------------------------------------------
\* a run of the Trainer of train_multi.py or a call of train() of train.py
InitLoops == Init \/ InitTrain

NextLoops == Next \/ NextTrain

SpecLoops == InitLoops /\ [][NextLoops]_vars

\* process r of the Trainer ends the step phase of an iteration
TrainerStepPhase(r) == pc[r] = "after_backward" /\ pc'[r] # "after_backward"

\* train() ends the step phase of an iteration
TrainStepPhase ==
    /\ call.fn = "train"
    /\ call.pc = "after_backward"
    /\ call'.pc # "after_backward"

\* iterations of process r whose step phase is over
StepPhasesDone(r) ==
    IF pc[r] \in {"at_allreduce", "after_backward", "crashed", "data_exhausted"}
    THEN iters_run[r] - 1 ELSE iters_run[r]

\* iterations of train() whose step phase is over
TrainStepPhasesDone ==
    IF call.pc \in {"validate", "crashed"} THEN call.iter_num + 1
    ELSE call.iter_num

\* the calls of a full boundary, with clipping when a threshold is configured
FullBoundary(grad_clip) ==
    IF grad_clip # 0 THEN <<"clip", "step", "zero", "sched">>
    ELSE <<"step", "zero", "sched">>

\* the calls of a boundary whose optimizer step the gradient scaler skipped
SkippedBoundary(grad_clip) ==
    IF grad_clip # 0 THEN <<"clip", "zero", "sched">> ELSE <<"zero", "sched">>

\* what C21 says of train() in train.py, which has no mixed precision
C21_TrainPart ==
    /\ TrainStepPhase =>
          IF (call.iter_num + 1) % call.args.gradient_accumulation_steps = 0
          THEN /\ call'.step_ops = FullBoundary(call.args.grad_clip)
               /\ call'.opt_steps = call.opt_steps + 1
               /\ call'.sched_steps = call.sched_steps + 1
               /\ call'.grads = 0
          ELSE /\ call'.step_ops = <<>>
               /\ call'.grads = call.grads
               /\ call'.params = call.params
               /\ call'.opt_steps = call.opt_steps
               /\ call'.sched_steps = call.sched_steps
    /\ call'.fn = "train" =>
          /\ call'.opt_steps =
                TrainStepPhasesDone' \div call'.args.gradient_accumulation_steps
          /\ call'.sched_steps = call'.opt_steps

\* C21 as stated: in both loops clip, optimizer step, zero_grad and scheduler
\* step happen at iteration i exactly when (i + 1) is a multiple of the
\* accumulation factor, in that order; every other iteration only accumulates;
\* a run of N iterations from step 0 has taken floor(N / factor) optimizer
\* steps and schedule advances.
C21_StepIffBoundary ==
    [][/\ C21_TrainPart
       /\ \A r \in Ranks :
            /\ TrainerStepPhase(r) =>
                  IF (iter_num[r] + 1) % accum[r] = 0
                  THEN /\ step_ops'[r] = FullBoundary(cfg.grad_clip)
                       /\ opt_steps'[r] = opt_steps[r] + 1
                       /\ sched_steps'[r] = sched_steps[r] + 1
                       /\ grads'[r] = 0
                  ELSE /\ step_ops'[r] = <<>>
                       /\ grads'[r] = grads[r]
                       /\ params'[r] = params[r]
                       /\ opt_steps'[r] = opt_steps[r]
                       /\ sched_steps'[r] = sched_steps[r]
            /\ loop_iter'[r] = iters_run'[r] =>
                  /\ opt_steps'[r] = StepPhasesDone(r)' \div accum'[r]
                  /\ sched_steps'[r] = opt_steps'[r]]_vars

\* C21 amended: as stated, except that in mixed precision the optimizer step
\* of a boundary whose gradients hold inf / NaN is skipped (clip, zero_grad and
\* scheduler step still happen, parameters and optimizer state stay); a run of
\* N iterations from step 0 has taken floor(N / factor) schedule advances and
\* floor(N / factor) optimizer steps less the skipped ones.
C21_StepUnlessOverflow ==
    [][/\ C21_TrainPart
       /\ \A r \in Ranks :
            /\ TrainerStepPhase(r) =>
                  IF (iter_num[r] + 1) % accum[r] = 0
                  THEN /\ sched_steps'[r] = sched_steps[r] + 1
                       /\ grads'[r] = 0
                       /\ IF cfg.mixed_precision /\ grads[r] = NonFinite
                          THEN /\ step_ops'[r] = SkippedBoundary(cfg.grad_clip)
                               /\ opt_steps'[r] = opt_steps[r]
                               /\ params'[r] = params[r]
                          ELSE /\ step_ops'[r] = FullBoundary(cfg.grad_clip)
                               /\ opt_steps'[r] = opt_steps[r] + 1
                  ELSE /\ step_ops'[r] = <<>>
                       /\ grads'[r] = grads[r]
                       /\ params'[r] = params[r]
                       /\ opt_steps'[r] = opt_steps[r]
                       /\ sched_steps'[r] = sched_steps[r]
            /\ loop_iter'[r] = iters_run'[r] =>
                  /\ sched_steps'[r] = StepPhasesDone(r)' \div accum'[r]
                  /\ opt_steps'[r] <= sched_steps'[r]
                  /\ ~cfg.mixed_precision => opt_steps'[r] = sched_steps'[r]]_vars

\* a mixed-precision run in which one boundary was skipped and one applied
C21_Witness ==
    \E r \in Ranks :
        /\ cfg.mixed_precision
        /\ step_ops[r] = <<"clip", "zero", "sched">>
        /\ sched_steps[r] = 2
        /\ opt_steps[r] = 1

\* C21's other half: train() has taken a step at a boundary and none in between
C21_TrainWitness ==
    /\ call.fn = "train"
    /\ call.args.gradient_accumulation_steps = 2
    /\ call.pc = "done"
    /\ call.opt_steps = 2
    /\ call.step_ops = <<"clip", "step", "zero", "sched">>

\* load_checkpoint / setup_model_and_optimizer: the best validation loss
\* process r starts train() with
StartBest(r) ==
    IF cfg.init_from = "resume"
    THEN LoadCheckpoint(InitWeights(r), resume_file,
                        dctx[r].distributed).best_val_loss
    ELSE Inf

\* setup_model_and_optimizer has set self.best_val_loss in process r
BestSet(r) ==
    pc[r] \notin {"new", "at_init_pg", "init_pg_done", "setup_logging",
                  "setup_datasets", "setup_model", "exited"}

\* what C22 says of train() in train.py
C22_TrainPart ==
    /\ (call.fn = "train" /\ call.pc = "validate" /\ call'.pc = "loop_head") =>
          IF call'.last_val < call.best_val_loss
          THEN /\ call'.best_val_loss = call'.last_val
               /\ call'.files.step.exists
               /\ call'.files.step = call'.files.latest
               /\ call'.files.latest.best_val_loss = call'.last_val
               /\ call'.files.latest.iter_num = call.iter_num
               /\ call'.iters_done = call.iters_done + 1
          ELSE /\ call'.best_val_loss = call.best_val_loss
               /\ call'.files = call.files
    /\ (call.fn = "train" /\ call.pc # "validate") =>
          call'.best_val_loss = call.best_val_loss
    /\ call'.fn = "train" => call'.best_val_loss = call'.val_seen

\* C22: when an evaluation yields an average strictly below the best so far,
\* the best is set to it and a checkpoint recording it (step-named and latest
\* copy) is written in the same iteration; otherwise the best is unchanged;
\* the best never increases and is the minimum of the averages observed so
\* far (in a resumed run, of those and the best the checkpoint carried).
C22_BestIsMinimum ==
    [][/\ C22_TrainPart
       /\ \A r \in Ranks : dctx[r].is_main_process =>
            /\ (pc[r] = "eval_finish" /\ pc'[r] # "eval_finish") =>
                  IF AvgValLoss(r) < best_val_loss[r]
                  THEN /\ best_val_loss'[r] = AvgValLoss(r)
                       /\ pc'[r] = "saving"
                       /\ save_kind'[r] = "best"
                  ELSE /\ best_val_loss'[r] = best_val_loss[r]
                       /\ pc'[r] # "saving"
            /\ (pc[r] = "saving" /\ save_kind[r] = "best"
                  /\ pc'[r] # "saving") =>
                  /\ disk'.step = disk'.latest
                  /\ disk'.latest.exists
                  /\ disk'.latest.best_val_loss = best_val_loss[r]
                  /\ disk'.latest.best_val_loss = val_seen[r]
                  /\ disk'.latest.iter_num = iter_num[r]
            /\ pc[r] # "eval_finish" =>
                  (BestSet(r) => best_val_loss'[r] = best_val_loss[r])
            /\ best_val_loss'[r] <= best_val_loss[r]
            /\ BestSet(r)' =>
                  best_val_loss'[r] = MinOf(StartBest(r), val_seen'[r])]_vars

\* the main process of a Trainer has saved two successive improvements
C22_Witness ==
    \E r \in Ranks :
        /\ dctx[r].is_main_process
        /\ Len(SelectSeq(ckpt_writes[r], LAMBDA k : k = "best")) >= 2
        /\ best_val_loss[r] < Inf
        /\ disk.latest.best_val_loss = best_val_loss[r]

\* save_checkpoint runs to its end in process r
SaveEvent(r) == pc[r] = "saving" /\ pc'[r] # "saving"

\* the main process has set a new best loss and not yet saved it
BestSavePending == \E r \in Ranks : pc[r] = "saving" /\ save_kind[r] = "best"

\* C23: every save of the Trainer (improvement, periodic, final) overwrites
\* "latest" with the content of that save; "best" is overwritten by the saves
\* of a validation improvement only; no other step touches the files; the
\* best validation loss recorded in "best" is the trainer's current one.
C23_LatestAndBest ==
    [][/\ \A r \in Ranks :
            SaveEvent(r) =>
               /\ disk'.latest.exists
               /\ disk'.latest.model = params[r]
               /\ disk'.latest.iter_num = iter_num[r]
               /\ disk'.latest.best_val_loss = best_val_loss[r]
               /\ save_kind[r] = "best" => disk'.best = disk'.latest
               /\ save_kind[r] # "best" => disk'.best = disk.best
       /\ (\A r \in Ranks : ~SaveEvent(r)) => disk' = disk
       /\ (disk'.best.exists /\ ~BestSavePending') =>
             disk'.best.best_val_loss = best_val_loss'[0]]_vars

\* a final save replaced "latest" and left an earlier "best" in place
C23_Witness ==
    /\ pc[0] = "done"
    /\ ckpt_writes[0][Len(ckpt_writes[0])] = "final"
    /\ disk.best.exists
    /\ disk.latest.iter_num > disk.best.iter_num
    /\ disk.latest.model # disk.best.model
    /\ disk.best.best_val_loss = best_val_loss[0]

\* C24: once the datasets are loaded, train() of train.py runs exactly
\* max_iters iterations and then writes a final checkpoint with step counter
\* max_iters and the current best validation loss; when dataset loading fails
\* it returns without an iteration and without a checkpoint.
C24_TrainRunsToFinal ==
    call.fn = "train" =>
        /\ call.args.data_ok =>
              /\ call.pc # "crashed"
              /\ call.pc = "done" =>
                    /\ call.iters_done = call.args.max_iters
                    /\ call.files.final.exists
                    /\ call.files.final.iter_num = call.args.max_iters
                    /\ call.files.final.best_val_loss = call.best_val_loss
        /\ ~call.args.data_ok =>
              /\ call.pc \in {"datasets", "returned"}
              /\ call.iters_done = 0
              /\ call.saves = 0
              /\ call.files = NoFiles

\* ---- configure_optimizers on a model with an added layer --------------------
\* modules registered on a constructed DeltaGPT before configure_optimizers
\* runs: none, a second linear head, a layer of a type the classification
\* rule does not name, and a linear layer that holds its own normalization
AddedLayers ==
    {{},
     {Module(<<"aux_head">>, "Linear", {"weight", "bias"})},
     {Module(<<"conv">>, "Conv1d", {"weight", "bias"})},
     {Module(<<"conv">>, "Conv1d", {"bias"})},
     {Module(<<"proj">>, "Linear", {"weight"}),
      Module(<<"proj", "norm">>, "LayerNorm", {"weight", "bias"})},
     {Module(<<"conv">>, "Conv1d", {"weight"}),
      Module(<<"proj">>, "Linear", {"weight"}),
      Module(<<"proj", "norm">>, "LayerNorm", {"weight"})}}

InitPartition ==
    /\ TrainerIdle
    /\ gen = NoGen
    /\ \E c \in ModelConfigs, added \in AddedLayers :
          /\ ~ConstructionFails(c)
          /\ call = [fn |-> "DeltaGPT", pc |-> "constructed", config |-> c,
                     modules |-> ModuleTree(c) \cup added,
                     decay |-> {}, no_decay |-> {}]

NextPartition == ConfigureOptimizers

SpecPartition == InitPartition /\ [][NextPartition]_vars

\* every learnable parameter of the module tree, by full name
LearnableNames(modules) ==
    {x[1].name \o <<x[2]>> :
        x \in {y \in modules \X {"weight", "bias"} : y[2] \in y[1].own}}

\* C25: when some learnable parameter is in both the decay and the exempt set,
\* or in neither, configure_optimizers fails before it builds an optimizer; an
\* optimizer it builds holds every parameter in exactly one group.
C25_BrokenPartitionIsFatal ==
    (call.fn = "DeltaGPT" /\ call.pc \in {"optimizer", "assert_failed"}) =>
        LET all == LearnableNames(call.modules)
            broken ==
              \E n \in all :
                 \/ n \in call.decay /\ n \in call.no_decay
                 \/ n \notin call.decay /\ n \notin call.no_decay
        IN /\ broken => call.pc = "assert_failed"
           /\ call.pc = "optimizer" =>
                 \A n \in all : (n \in call.decay) # (n \in call.no_decay)
           /\ call.pc = "assert_failed" => broken

\* both failures at once: a parameter in both sets and one in neither
C25_Witness ==
    /\ call.fn = "DeltaGPT"
    /\ call.pc = "assert_failed"
    /\ <<"proj", "norm", "weight">> \in call.decay \cap call.no_decay
    /\ <<"conv", "weight">> \notin call.decay \cup call.no_decay
    /\ call.config.n_layer >= 1

\* ---- the accumulation factor of the Trainer ---------------------------------

\* C27: in distributed mode the accumulation factor is rescaled once, by the
\* step of setup_distributed that follows init_process_group, to
\* max(1, configured factor \div world size); it is at least 1 from then on;
\* no other step changes it, a single-process Trainer keeps the configured
\* factor, and the configured values themselves never change.
C27_RescaledOnceInSetup ==
    [][ /\ cfg' = cfg
        /\ \A r \in Ranks :
              /\ accum'[r] # accum[r] =>
                    /\ pc[r] = "init_pg_done"
                    /\ pc'[r] = "setup_logging"
                    /\ accum[r] = cfg.gradient_accumulation_steps
              /\ pc'[r] = "init_pg_done" => pc[r] \in {"at_init_pg", "init_pg_done"}
              /\ SetupDone(r)' =>
                    /\ accum'[r] >= 1
                    /\ accum'[r] =
                          IF dctx'[r].distributed
                          THEN Max(1, cfg.gradient_accumulation_steps
                                         \div dctx'[r].world_size)
                          ELSE cfg.gradient_accumulation_steps
      ]_vars

C27_Witness ==
    \E r \in Ranks :
        /\ pc[r] = "done"
        /\ dctx[r].distributed
        /\ dctx[r].world_size = 2
        /\ cfg.gradient_accumulation_steps = 1
        /\ accum[r] = 1
        /\ iters_run[r] > 0

\* ---- the accumulation window -------------------------------------------------

\* C28: every optimizer step applies a gradient with exactly
\* accumulation-factor contributions, each from a loss divided by the factor,
\* in the Trainer (the first step after a resume included) and in train().
C28_FullWindowAtEveryStep ==
    [][ /\ \A r \in Ranks :
              (TrainerStepPhase(r) /\ opt_steps'[r] # opt_steps[r]) =>
                  contribs[r] = accum[r]
        /\ (TrainStepPhase /\ call'.opt_steps # call.opt_steps) =>
              call.contribs = call.args.gradient_accumulation_steps
      ]_vars

\* ---- the frame of Trainer.evaluate -------------------------------------------

\* process r is inside evaluate, between model.eval() and model.train()
InEvaluate(r) == pc[r] \in {"at_reduce", "eval_finish"}

\* process r takes a step of evaluate
EvaluateStep(r) ==
    /\ pc[r] \in {"evaluate", "at_reduce", "eval_finish"}
    /\ pc'[r] # pc[r]

\* C29: Trainer.evaluate reads at most eval_iters validation batches; its steps
\* leave the parameters, the accumulated gradient and its contributions, the
\* optimizer and scaler state, the schedule position and the step counter
\* unchanged; the model is in inference mode inside evaluate only and in
\* training mode once it has returned; with zero validation batches the
\* value returned is infinity, and then neither the best validation loss
\* changes nor a best checkpoint is saved.
C29_EvaluateFrame ==
    [][\A r \in Ranks :
          /\ Len(val_buf'[r]) <= cfg.eval_iters
          /\ training'[r] = ~InEvaluate(r)'
          /\ EvaluateStep(r) =>
                /\ params'[r] = params[r]
                /\ grads'[r] = grads[r]
                /\ contribs'[r] = contribs[r]
                /\ opt_steps'[r] = opt_steps[r]
                /\ scaler'[r] = scaler[r]
                /\ sched_steps'[r] = sched_steps[r]
                /\ iter_num'[r] = iter_num[r]
          /\ (pc[r] = "eval_finish" /\ pc'[r] # "eval_finish") =>
                /\ training'[r]
                /\ EvalBatches(cfg.val_batches, cfg.eval_iters) = 0 =>
                      /\ AvgValLoss(r) = Inf
                      /\ best_val_loss'[r] = best_val_loss[r]
                      /\ pc'[r] # "saving"
      ]_vars

C29_Witness ==
    \E r \in Ranks :
        /\ pc[r] = "eval_finish"
        /\ cfg.val_batches > cfg.eval_iters
        /\ Len(val_buf[r]) = cfg.eval_iters
        /\ ~training[r]
        /\ grads[r] # 0
        /\ contribs[r] = 1

\* ---- the batch iterator ------------------------------------------------------

\* C30: whatever the number of training batches, no run of the loop ends
\* because the data ran out: every iteration entered has obtained a batch,
\* after a restart of the iterator when it was exhausted, in the Trainer and
\* in train().
C30_LoopNeverRunsOutOfData ==
    /\ \A r \in Ranks :
          /\ pc[r] # "data_exhausted"
          /\ iters_run[r] > 0 => train_iter[r] \in 1 .. cfg.train_batches
    /\ (call.fn = "train" /\ call.pc \in {"after_backward", "validate"}) =>
          call.train_iter \in 1 .. call.args.train_batches

\* ---- Trainer.load_checkpoint: the keys of the saved weights -------------------

\* parameter names of a model of n layers, in state_dict order: 0 is the
\* embedding, i the weight of block i
StateNames(n) == 0 .. n

\* a state_dict key: the parameter name behind `wraps` copies of "_orig_mod."
ParamKey(wraps, name) == [wraps |-> wraps, name |-> name]

\* lines 327-328: model_to_save.state_dict(), whose keys carry the prefix of
\* torch.compile when the model was compiled (lines 253-262)
SavedStateDict(n, vals, compiled) ==
    [i \in 1 .. (n + 1) |->
        [key |-> ParamKey(IF compiled THEN 1 ELSE 0, i - 1), val |-> vals[i - 1]]]

Keys(d) == {d[i].key : i \in DOMAIN d}

Lookup(d, k) == d[CHOOSE i \in DOMAIN d : d[i].key = k].val

\* state_dict.pop(k)
Pop(d, k) == SelectSeq(d, LAMBDA e : e.key # k)

\* state_dict[k] = v: an existing key keeps its place, a new key goes last
SetItem(d, k, v) ==
    IF k \in Keys(d)
    THEN [i \in DOMAIN d |-> IF d[i].key = k THEN [key |-> k, val |-> v] ELSE d[i]]
    ELSE Append(d, [key |-> k, val |-> v])

\* line 295: k.startswith(unwanted_prefix)
StartsWithPrefix(k) == k.wraps > 0

KeepPrefix(k) == k
\* line 296: k[len(unwanted_prefix):]
StripPrefix(k) == [k EXCEPT !.wraps = @ - 1]

\* lines 294-296: the loop over list(state_dict.items()), from item i on
RECURSIVE NormaliseFrom(_, _, _)
NormaliseFrom(items, i, d) ==
    IF i > Len(items) THEN d
    ELSE LET k == items[i].key
         IN IF StartsWithPrefix(k)
            THEN NormaliseFrom(items, i + 1,
                               SetItem(Pop(d, k), StripPrefix(k), Lookup(d, k)))
            ELSE NormaliseFrom(items, i + 1, d)

Normalise(d) == NormaliseFrom(d, 1, d)

\* line 299: load_state_dict is strict, it raises unless the keys are exactly
\* the names of the module
LoadAccepts(n, d) == Keys(d) = {ParamKey(0, j) : j \in StateNames(n)}

\* line 299: load_state_dict copies every entry whose key names a parameter of
\* the module, before it raises for the keys that are missing or unexpected
LoadedWeights(n, d, old) ==
    [j \in StateNames(n) |->
        IF ParamKey(0, j) \in Keys(d) THEN Lookup(d, ParamKey(0, j)) ELSE old[j]]

\* the weights of a freshly initialised module
FreshWeights(n) == [j \in StateNames(n) |-> 0]

\* lines 286-299: what load_checkpoint leaves in a module of n layers, from the
\* state_dict d of the file
LoadOutcome(n, d) ==
    [pc |-> IF LoadAccepts(n, Normalise(d)) THEN "loaded" ELSE "raised",
     weights |-> LoadedWeights(n, Normalise(d), FreshWeights(n))]

\* line 287: torch.load has returned the dictionary save_checkpoint wrote for a
\* model of saved_layers layers, compiled or not; the module that loads has
\* `layers` layers and is not compiled yet
InitKeys ==
    /\ TrainerAt("off")
    /\ gen = NoGen
    /\ \E sl \in 1 .. MaxLayer, n \in 1 .. MaxLayer, compiled \in BOOLEAN :
         \E vals \in [StateNames(sl) -> 1 .. MaxWeight] :
            call = [fn |-> "load_keys", pc |-> "torch_loaded",
                    saved_layers |-> sl, layers |-> n, compiled |-> compiled,
                    vals |-> vals,
                    file_dict |-> SavedStateDict(sl, vals, compiled),
                    state_dict |-> SavedStateDict(sl, vals, compiled),
                    weights |-> FreshWeights(n)]

\* lines 292-296
StripKeys ==
    /\ call.fn = "load_keys"
    /\ call.pc = "torch_loaded"
    /\ call' = [call EXCEPT !.pc = "stripped",
                            !.state_dict = Normalise(call.state_dict)]
    /\ UNCHANGED <<trainer_vars, gen>>

\* line 299, and the handler of lines 313-316 when it raises
LoadWeights ==
    /\ call.fn = "load_keys"
    /\ call.pc = "stripped"
    /\ call' = [call EXCEPT
                  !.pc = IF LoadAccepts(call.layers, call.state_dict)
                         THEN "loaded" ELSE "raised",
                  !.weights = LoadedWeights(call.layers, call.state_dict, @)]
    /\ UNCHANGED <<trainer_vars, gen>>

NextKeys == StripKeys \/ LoadWeights

SpecKeys == InitKeys /\ [][NextKeys]_vars

\* C31: after the normalisation every key of the file that started with the
\* prefix is present without it, with its value; every other key is present
\* with its value; there is no further key and none starts with the prefix.
\* The load that follows ends as the load of the same weights saved from an
\* uncompiled model ends: accepted or refused alike, with the same weights.
C31_PrefixStripped ==
    (call.fn = "load_keys" /\ call.pc # "torch_loaded") =>
        /\ \A i \in DOMAIN call.file_dict :
              LET e == call.file_dict[i]
                  k == IF e.key.wraps > 0
                       THEN ParamKey(e.key.wraps - 1, e.key.name) ELSE e.key
              IN /\ k \in Keys(call.state_dict)
                 /\ Lookup(call.state_dict, k) = e.val
        /\ Len(call.state_dict) = Len(call.file_dict)
        /\ \A k \in Keys(call.state_dict) : k.wraps = 0
        /\ call.pc \in {"loaded", "raised"} =>
              /\ [pc |-> call.pc, weights |-> call.weights] =
                    LoadOutcome(call.layers,
                                SavedStateDict(call.saved_layers, call.vals, FALSE))
              /\ (call.pc = "loaded") <=> (call.saved_layers = call.layers)
              /\ call.pc = "loaded" => call.weights = call.vals

C31_Witness ==
    /\ call.fn = "load_keys"
    /\ call.pc = "loaded"
    /\ call.compiled
    /\ call.layers = 2
    /\ call.weights[0] # call.weights[2]

\* ---- the Trainer in single-process mode beside train() ------------------------

\* the options train() of train.py has as well: no resume and no mixed
\* precision; the data directory has at least one batch of training data
SharedConfigs ==
    {c \in Configs : /\ c.init_from = "scratch"
                     /\ ~c.mixed_precision
                     /\ c.data_missing = {}
                     /\ c.train_batches >= 1}

\* the arguments of train() for the configuration c of the Trainer
ArgsOf(c) ==
    [gradient_accumulation_steps |-> c.gradient_accumulation_steps,
     max_iters |-> c.max_iters, eval_interval |-> c.eval_interval,
     eval_iters |-> c.eval_iters, val_batches |-> c.val_batches,
     grad_clip |-> c.grad_clip, train_batches |-> c.train_batches,
     data_ok |-> TRUE]

\* one process without RANK builds a Trainer and runs it, another calls
\* train() of train.py with the same options on the same data directory
InitBoth ==
    /\ env_rank = FALSE
    /\ world = 1
    /\ cfg \in SharedConfigs
    /\ resume_file = NoFile
    /\ pc = [r \in Ranks |-> "new"]
    /\ dctx = [r \in Ranks |-> NoCtx]
    /\ accum = [r \in Ranks |-> cfg.gradient_accumulation_steps]
    /\ writer = [r \in Ranks |-> FALSE]
    /\ params = [r \in Ranks |-> 0]
    /\ grads = [r \in Ranks |-> 0]
    /\ iter_num = [r \in Ranks |-> 0]
    /\ loop_iter = [r \in Ranks |-> 0]
    /\ best_val_loss = [r \in Ranks |-> Inf]
    /\ val_buf = [r \in Ranks |-> <<>>]
    /\ ret = [r \in Ranks |-> "none"]
    /\ save_kind = [r \in Ranks |-> "none"]
    /\ opt_steps = [r \in Ranks |-> 0]
    /\ iters_run = [r \in Ranks |-> 0]
    /\ coll_log = [r \in Ranks |-> <<>>]
    /\ ckpt_writes = [r \in Ranks |-> <<>>]
    /\ metric_writes = [r \in Ranks |-> 0]
    /\ disk = NoDisk
    /\ scaler = [r \in Ranks |-> NoScaler]
    /\ LoopFresh
    /\ gen = NoGen
    /\ call = TrainCall(ArgsOf(cfg))

\* the steps of a Trainer that runs without a process group
NextSingle ==
    \/ \E r \in Ranks : SetupDistributed(r)
    \/ \E r \in Ranks : SetupLogging(r)
    \/ \E r \in Ranks : SetupDatasets(r)
    \/ \E r \in Ranks : SetupModel(r)
    \/ \E r \in Ranks : TrainStart(r)
    \/ \E r \in Ranks : LoopHead(r)
    \/ \E r \in Ranks : StepAndLog(r)
    \/ \E r \in Ranks : EvaluateLocal(r)
    \/ \E r \in Ranks : EvaluateFinish(r)
    \/ \E r \in Ranks : SaveCheckpoint(r)
    \/ \E r \in Ranks : Periodic(r)
    \/ \E r \in Ranks : Teardown(r)

NextBoth == NextSingle \/ NextTrain

SpecBoth == InitBoth /\ [][NextBoth]_vars

\* the Trainer has left train(): returned, or an exception ended it
TrainerEnded == pc[0] \in {"done", "crashed", "data_exhausted"}

\* train() of train.py is over
TrainEnded == call.pc \in {"done", "crashed", "returned"}

\* C32: for the same options and data the single-process Trainer and train()
\* take the same optimizer steps and schedule advances, and when both have
\* written their final checkpoint it records the same step counter.  (These
\* are the parts of the claim that do not depend on the losses drawn.)
C32_TrainerRefinesTrain ==
    (TrainerEnded /\ TrainEnded) =>
        /\ opt_steps[0] = call.opt_steps
        /\ sched_steps[0] = call.sched_steps
        /\ (pc[0] = "done") <=> (call.pc = "done")
        /\ (pc[0] = "done" /\ call.pc = "done") =>
              disk.latest.iter_num = call.files.final.iter_num

\* ---- the step counter of a checkpoint -----------------------------------------

\* C34: the final checkpoint of a completed run from scratch records
\* max_iters, the number of iterations completed, in the Trainer and in train().
C34_FinalRecordsMaxIters ==
    /\ \A r \in Ranks :
          (pc[r] = "done" /\ dctx[r].is_main_process
              /\ cfg.init_from = "scratch") =>
              /\ disk.latest.exists
              /\ disk.latest.iter_num = cfg.max_iters
    /\ (call.fn = "train" /\ call.pc = "done") =>
          /\ call.files.final.exists
          /\ call.files.final.iter_num = call.args.max_iters

\* ---- the model-size presets of the command line -------------------------------

\* lines 544-562 of train_multi.py, lines 474-492 of train.py (the same
\* presets): the ModelConfig of --model_size, bias at its default
Preset(size) ==
    CASE size = "small"  -> [n_layer |-> 6, n_head |-> 8, n_embd |-> 384,
                             bias |-> FALSE]
      [] size = "medium" -> [n_layer |-> 8, n_head |-> 12, n_embd |-> 512,
                             bias |-> FALSE]
      [] OTHER           -> [n_layer |-> 12, n_head |-> 16, n_embd |-> 768,
                             bias |-> FALSE]

\* the parsed command line of either program
PresetArgs ==
    [program : {"train.py", "train_multi.py"},
     model_size : {"small", "medium", "large"},
     gradient_accumulation_steps : 1 .. MaxAccum,
     max_iters : {0, 1, MaxIters}]

\* parser.parse_args() has returned
InitPreset ==
    /\ TrainerIdle
    /\ gen = NoGen
    /\ \E a \in PresetArgs : call = [fn |-> "main", pc |-> "args", args |-> a]

\* the if / elif / else on args.model_size
SelectPreset ==
    /\ call.fn = "main"
    /\ call.pc = "args"
    /\ call' = [fn |-> "DeltaGPT", pc |-> "config", args |-> call.args,
                config |-> Preset(call.args.model_size),
                modules |-> {}, decay |-> {}, no_decay |-> {}]
    /\ UNCHANGED <<trainer_vars, gen>>

NextPreset == SelectPreset \/ ConstructModel

SpecPreset == InitPreset /\ [][NextPreset]_vars

\* C35: the preset of every selectable model size has an embedding width
\* divisible by its head count, and the model of that size is constructed.
C35_PresetsConstruct ==
    (call.fn = "DeltaGPT" /\ "args" \in DOMAIN call) =>
        /\ Divisible(call.config.n_embd, call.config.n_head)
        /\ call.pc # "construct_failed"

\* ---- a failed load and the weights --------------------------------------------

\* C36: when load_checkpoint has fallen back to step 0 and best loss infinity,
\* the model still has the weights of its fresh initialisation (seen before
\* the DDP wrap, which replaces the replicas' weights by those of rank 0).
C36_FailedLoadKeepsFreshWeights ==
    \A r \in Ranks :
        (/\ cfg.init_from = "resume"
         /\ LoadRaises(resume_file, dctx[r].distributed)
         /\ \/ pc[r] = "at_ddp"
            \/ pc[r] = "constructed" /\ ~dctx[r].distributed) =>
            /\ iter_num[r] = 0
            /\ best_val_loss[r] = Inf
            /\ params[r] = InitWeights(r)

\* ---- schedule advances and optimizer steps ------------------------------------

\* the scaler skips the optimizer step of the boundary process r is at
SkipsStep(r) ==
    /\ TrainerStepPhase(r)
    /\ cfg.mixed_precision
    /\ (iter_num[r] + 1) % accum[r] = 0
    /\ grads[r] = NonFinite

\* C37 as stated: in every state of the Trainer the schedule has advanced as
\* often as the optimizer has stepped, in full and in mixed precision.
C37_ScheduleEqualsSteps ==
    \A r \in Ranks : sched_steps[r] = opt_steps[r]

\* C37 amended: the schedule advances once for every optimizer step applied
\* and once for every optimizer step skipped because of a gradient overflow;
\* the two counts are equal in full precision, and in mixed precision the
\* schedule is ahead by the number of skipped steps.
C37_ScheduleCountsSkippedSteps ==
    [][\A r \in Ranks :
          /\ sched_steps'[r] - sched_steps[r] =
                (opt_steps'[r] - opt_steps[r]) + (IF SkipsStep(r) THEN 1 ELSE 0)
          /\ opt_steps'[r] - opt_steps[r] \in {0, 1}
          /\ opt_steps'[r] <= sched_steps'[r]
          /\ ~cfg.mixed_precision => sched_steps'[r] = opt_steps'[r]
      ]_vars

C37_Witness ==
    \E r \in Ranks :
        /\ cfg.mixed_precision
        /\ pc[r] = "done"
        /\ opt_steps[r] >= 1
        /\ sched_steps[r] > opt_steps[r]

====
